---- MODULE Spec2Model ----
(***************************************************************************)
(* Call classification and enrichment pipeline of liam_reporting:          *)
(* the rule-based classifier (core/lib/classify_call.js), the GPT batch    *)
(* classifier with its override chain (scripts/enrich.js), the per-day     *)
(* enrichment store (core/lib/store_enrichment.js) and the routing-status  *)
(* resolver of the day-over-day report (scripts/report-day-over-day.js).   *)
(***************************************************************************)
EXTENDS Integers, Sequences, FiniteSets, TLC

(***************************************************************************)
(* JavaScript values.  A missing property is Undefined, null is Null;      *)
(* an optional number or object is None or Some(v).                        *)
(***************************************************************************)
Undefined == "<undefined>"
Null == "<null>"
None == <<>>
Some(v) == <<v>>

\* truthiness of a string-valued property
Truthy(v) == v \notin {Undefined, Null, ""}

\* `v || null`
OrNull(v) == IF Truthy(v) THEN v ELSE Null

Min(S) == CHOOSE x \in S : \A y \in S : x <= y

SeqToSet(s) == {s[k] : k \in 1..Len(s)}

(***************************************************************************)
(* Texts.  A text is one of a fixed vocabulary; toLowerCase and includes   *)
(* are given by their tables on that vocabulary.                           *)
(***************************************************************************)
ToLowerCase(t) ==
    CASE t = "Great, your Appointment is confirmed for Monday."
            -> "great, your appointment is confirmed for monday."
      [] t = "Appointment Scheduled for Tuesday"
            -> "appointment scheduled for tuesday"
      [] t = "Caller Transferred to sales after appointment was scheduled"
            -> "caller transferred to sales after appointment was scheduled"
      [] t = "Call Transferred to service"
            -> "call transferred to service"
      [] t = "Spam" -> "spam"
      [] t = "Unknown" -> "unknown"
      [] OTHER -> t

\* the substrings, among those the code tests for, that occur in text t
Substrings(t) ==
    CASE t = "great, your appointment is confirmed for monday."
            -> {"appointment is confirmed for", "your appointment is confirmed",
                "appointment", "confirmed"}
      [] t = "Great, your Appointment is confirmed for Monday."
            -> {"confirmed"}
      [] t = "appointment scheduled for tuesday"
            -> {"appointment", "scheduled"}
      [] t = "Appointment Scheduled for Tuesday"
            -> {}
      [] t = "caller transferred to sales after appointment was scheduled"
            -> {"appointment", "scheduled", "transferred"}
      [] t = "Caller Transferred to sales after appointment was scheduled"
            -> {"appointment", "scheduled"}
      [] t = "call transferred to service"
            -> {"transferred"}
      [] OTHER -> {}

Includes(t, sub) == sub \in Substrings(t)

\* String.prototype.trim().match(/\w+/): the text holds a word character
HasWord(t) == t \notin {Undefined, "", "   ", "...", "?!"}

(***************************************************************************)
(* Call records (the raw Vapi call objects).                               *)
(*   duration            call.duration in seconds, None when absent        *)
(*   startedAt, endedAt  timestamps in milliseconds, None when absent      *)
(*   destination         call.destination, None or [description, number]   *)
(*   structuredOutputs   call.analysis.artifact.structuredOutputs: None or *)
(*                       a sequence of [key, name, result]                 *)
(*   successEvaluation   call.analysis.successEvaluation: None or          *)
(*                       [parses, call_success, final_outcome]             *)
(*   messages, toolCalls None or a sequence                                *)
(***************************************************************************)
TRANSFER_TOOL_NAMES == {"intent_transfer", "transfer_intent", "transferCall"}

\* a tool call: t.function may be missing (fn = FALSE); its arguments are a
\* JSON text that parses to an object (kind "json"), does not parse
\* ("invalid") or is absent ("missing")
Tool(fn, name, args) == [fn |-> fn, name |-> name, arguments |-> args]

Args(dest, intent, dept, queue) ==
    [kind |-> "json", destination |-> dest, intent |-> intent,
     department |-> dept, queue |-> queue]

BadArgs == [kind |-> "invalid", destination |-> Undefined, intent |-> Undefined,
            department |-> Undefined, queue |-> Undefined]

Message(role, text, tools) == [role |-> role, message |-> text, toolCalls |-> tools]

(***************************************************************************)
(* Rule-based classifier: core/lib/classify_call.js                        *)
(***************************************************************************)
\* the three shapes classifyCall can end in: a classification, the
\* needs_analysis sentinel, or an uncaught TypeError
Classified(cat, status, reason) ==
    [threw |-> FALSE, needs_analysis |-> FALSE, category |-> cat,
     bookingStatus |-> status, transferReason |-> reason]

NeedsAnalysis ==
    [threw |-> FALSE, needs_analysis |-> TRUE, category |-> Undefined,
     bookingStatus |-> Undefined, transferReason |-> Undefined]

Threw ==
    [threw |-> TRUE, needs_analysis |-> FALSE, category |-> Undefined,
     bookingStatus |-> Undefined, transferReason |-> Undefined]

\* `duration` of classifyCall, in milliseconds (the code holds seconds as a
\* float: (end - start) / 1000)
classifyDurationMs(c) ==
    LET d == IF c.duration = None THEN 0 ELSE c.duration[1] * 1000
    IN  IF d = 0 /\ c.startedAt # None /\ c.endedAt # None
          THEN c.endedAt[1] - c.startedAt[1]
          ELSE d

\* call.destination?.description || call.destination?.number || 'unknown-destination'
resolvedDestination(c) ==
    IF c.destination = None THEN "unknown-destination"
    ELSE IF Truthy(c.destination[1].description) THEN c.destination[1].description
    ELSE IF Truthy(c.destination[1].number) THEN c.destination[1].number
    ELSE "unknown-destination"

\* Object.values(structuredOutputs).find(o => o.name === 'Appointment Booked')?.result === true
appointmentBookedByName(c) ==
    IF c.structuredOutputs = None THEN FALSE
    ELSE LET so == c.structuredOutputs[1]
             hits == {k \in 1..Len(so) : so[k].name = "Appointment Booked"}
         IN  hits # {} /\ so[Min(hits)].result = TRUE

\* 3b: success evaluation, a JSON string or an object; parse errors are ignored
vapiSuccess(c) ==
    IF c.successEvaluation = None THEN FALSE
    ELSE LET ev == c.successEvaluation[1]
         IN  /\ ev.parses
             /\ \/ ev.call_success = "yes"
                \/ /\ ev.final_outcome # Undefined
                   /\ \/ Includes(ToLowerCase(ev.final_outcome), "booked")
                      \/ Includes(ToLowerCase(ev.final_outcome), "scheduled")

\* lowerText.includes(phrase), lowerText = (transcript + ' ' + assistant messages).toLowerCase()
textIncludes(c, phrase) ==
    \/ Includes(ToLowerCase(c.transcript), phrase)
    \/ /\ c.messages # None
       /\ \E k \in 1..Len(c.messages[1]) :
             /\ c.messages[1][k].role = "assistant"
             /\ Includes(ToLowerCase(c.messages[1][k].message), phrase)

hasConfirmationPhrase(c) ==
    \/ textIncludes(c, "appointment is confirmed for")
    \/ textIncludes(c, "consultation is confirmed for")
    \/ textIncludes(c, "your appointment is confirmed")
    \/ textIncludes(c, "your consultation is confirmed")

\* args.destination after JSON.parse(tool.function.arguments), or the
\* 'Unknown Destination' of the catch block
parsedDestination(tool) ==
    IF tool.arguments.kind = "json" THEN tool.arguments.destination
    ELSE "Unknown Destination"

\* lines 86-100: the top-level toolCalls array, read with t.function?.name
topLevelDestination(c) ==
    IF c.toolCalls = None THEN Null
    ELSE LET ts == c.toolCalls[1]
             hits == {k \in 1..Len(ts) : ts[k].fn /\ ts[k].name \in TRANSFER_TOOL_NAMES}
         IN  IF hits = {} THEN Null ELSE parsedDestination(ts[Min(hits)])

\* t.function.name read without `?.` over an array of tool calls: the index
\* of the first transfer tool, 0 when there is none, -1 when a tool without
\* `function` is met first (TypeError)
strictFind(ts) ==
    LET hits == {k \in 1..Len(ts) : ts[k].fn /\ ts[k].name \in TRANSFER_TOOL_NAMES}
        bad == {k \in 1..Len(ts) : ~ts[k].fn}
    IN  IF hits \cup bad = {} THEN 0
        ELSE IF Min(hits \cup bad) \in bad THEN -1
        ELSE Min(hits)

\* the predicate of call.messages.find at lines 104-111 on one message:
\* "yes", "no" or "throw"
toolCallMessageTest(m) ==
    IF m.role = "tool_calls" THEN "yes"
    ELSE IF m.toolCalls = None THEN "no"
    ELSE LET k == strictFind(m.toolCalls[1])
         IN  IF k = -1 THEN "throw" ELSE IF k = 0 THEN "no" ELSE "yes"

\* lines 103-128: the fallback over call.messages; a destination, Null, or
\* "<throw>" for an uncaught TypeError
Throw == "<throw>"

messagesDestination(c) ==
    LET ms == c.messages[1]
        yes == {k \in 1..Len(ms) : toolCallMessageTest(ms[k]) = "yes"}
        bad == {k \in 1..Len(ms) : toolCallMessageTest(ms[k]) = "throw"}
    IN  IF yes \cup bad = {} THEN Null
        ELSE IF Min(yes \cup bad) \in bad THEN Throw
        ELSE LET m == ms[Min(yes)]
             IN  IF m.toolCalls = None THEN Throw
                 ELSE LET k == strictFind(m.toolCalls[1])
                      IN  IF k = -1 THEN Throw
                          ELSE IF k = 0 THEN Null
                          ELSE parsedDestination(m.toolCalls[1][k])

\* transferDestination of classifyCall
transferDestination(c) ==
    LET top == topLevelDestination(c)
    IN  IF ~Truthy(top) /\ c.messages # None THEN messagesDestination(c) ELSE top

\* rules 5..8 of classifyCall (lines 80-157)
classifyAfterBooking(c) ==
    LET dest == transferDestination(c)
    IN  IF dest = Throw THEN Threw
        ELSE IF Truthy(dest) /\ c.endedReason # "assistant-forwarded-call"
          THEN Classified("hangup", "none", "hung-up-during-transfer-to-" \o dest)
        ELSE IF c.endedReason = "customer-ended-call"
          THEN Classified("hangup", "none", "customer-hung-up")
        ELSE NeedsAnalysis

\* a variant with the customer-hangup rule ahead of the booking rule
classifyCallHangupFirst(c) ==
    IF classifyDurationMs(c) < 5 * 1000
      THEN Classified("spam", "none", "short-abandoned")
    ELSE IF c.endedReason = "assistant-forwarded-call"
      THEN Classified("transferred", "none", resolvedDestination(c))
    ELSE IF c.endedReason = "customer-ended-call"
      THEN Classified("hangup", "none", "customer-hung-up")
    ELSE IF appointmentBookedByName(c) \/ hasConfirmationPhrase(c) \/ vapiSuccess(c)
      THEN Classified("booking-success", "booking-success", "none")
    ELSE classifyAfterBooking(c)

classifyCall(c) ==
    IF classifyDurationMs(c) < 5 * 1000
      THEN Classified("spam", "none", "short-abandoned")
    ELSE IF c.endedReason = "assistant-forwarded-call"
      THEN Classified("transferred", "none", resolvedDestination(c))
    ELSE IF appointmentBookedByName(c) \/ hasConfirmationPhrase(c) \/ vapiSuccess(c)
      THEN Classified("booking-success", "booking-success", "none")
    ELSE classifyAfterBooking(c)

(***************************************************************************)
(* GPT batch classifier: scripts/enrich.js, classifyCallsBatch             *)
(***************************************************************************)
\* Math.round((new Date(endedAt) - new Date(startedAt)) / 1000), 0 without
\* both timestamps (lines 78-80)
enrichDuration(c) ==
    IF c.endedAt # None /\ c.startedAt # None
      THEN (c.endedAt[1] - c.startedAt[1] + 500) \div 1000
      ELSE 0

\* structuredOutputs?.['Appointment Booked']?.result === true (line 104)
appointmentBookedByKey(c) ==
    /\ c.structuredOutputs # None
    /\ LET so == c.structuredOutputs[1]
           hits == {k \in 1..Len(so) : so[k].key = "Appointment Booked"}
       IN  hits # {} /\ so[Min(hits)].result = TRUE

\* lines 110-129: the four-way test on the success evaluation
evaluationSaysBooked(c) ==
    /\ c.successEvaluation # None
    /\ LET ev == c.successEvaluation[1]
           finalOutcome == IF ev.parses /\ Truthy(ev.final_outcome)
                             THEN ToLowerCase(ev.final_outcome) ELSE ""
       IN  /\ ev.parses
           /\ ev.call_success = "yes"
           /\ (Includes(finalOutcome, "appointment") \/ Includes(finalOutcome, "consultation"))
           /\ \/ Includes(finalOutcome, "scheduled")
              \/ Includes(finalOutcome, "confirmed")
              \/ Includes(finalOutcome, "booked")
           /\ ~Includes(finalOutcome, "transferred")

\* the callSummaries entry of a call (lines 131-140), without the texts
callMetadata(c) ==
    [callId |-> c.id,
     duration |-> enrichDuration(c),
     endedReason |-> IF Truthy(c.endedReason) THEN c.endedReason ELSE "unknown",
     appointmentBooked |-> appointmentBookedByKey(c) \/ evaluationSaysBooked(c)]

Classification(cat, hangupType, transferReason, spamType) ==
    [category |-> cat, hangupType |-> hangupType,
     transferReason |-> transferReason, spamType |-> spamType]

UnknownClassification == Classification("unknown", Null, Null, Null)

\* the model request's outcome: the request fails ("failed"), its content is
\* not JSON or not of a shape the mapping can read ("unparseable"), or it is
\* a JSON object ("ok") whose `calls` is absent (None) or a list of
\* [callId, category, hangupType, transferReason, spamType]
Response(kind, calls) == [kind |-> kind, calls |-> calls]

\* result.calls?.find(c => c.callId === call.id) || {category: 'unknown', ...}
\* (lines 173-178)
modelClassification(c, response) ==
    LET hits == IF response.calls = None THEN {}
                ELSE {k \in 1..Len(response.calls[1]) : response.calls[1][k].callId = c.id}
    IN  IF hits = {} THEN UnknownClassification
        ELSE LET e == response.calls[1][Min(hits)]
             IN  Classification(e.category, e.hangupType, e.transferReason, e.spamType)

\* Override 1 (lines 182-191)
overrideBooking(meta, cl) ==
    IF meta.appointmentBooked /\ cl.category # "booking-completed"
      THEN Classification("booking-completed", Null, Null, Null)
      ELSE cl

\* a variant whose spam threshold includes 10 s
overrideUnknownInclusive(meta, cl) ==
    IF cl.category # "unknown" THEN cl
    ELSE IF meta.endedReason = "assistant-forwarded-call"
      THEN Classification("transferred", Null, "other", Null)
    ELSE IF meta.endedReason \in {"customer-ended-call", "silence-timed-out"}
      THEN IF meta.duration <= 10
             THEN Classification("spam", Null, Null, "short-call")
             ELSE Classification("hangup",
                                 IF meta.duration < 30 THEN "low-value" ELSE "moderate",
                                 Null, Null)
    ELSE cl

\* Override 2 (lines 193-228)
overrideUnknown(meta, cl) ==
    IF cl.category # "unknown" THEN cl
    ELSE IF meta.endedReason = "assistant-forwarded-call"
      THEN Classification("transferred", Null, "other", Null)
    ELSE IF meta.endedReason \in {"customer-ended-call", "silence-timed-out"}
      THEN IF meta.duration < 10
             THEN Classification("spam", Null, Null, "short-call")
             ELSE Classification("hangup",
                                 IF meta.duration < 30 THEN "low-value" ELSE "moderate",
                                 Null, Null)
    ELSE cl

\* category?.startsWith('booking')
StartsWithBooking(cat) ==
    cat \in {"booking-completed", "booking-abandoned", "booking-transferred", "booking-success"}

\* the record pushed at lines 230-243 (enrichedAt and model left out)
Enrichment(c, cl) ==
    [callId |-> c.id,
     createdAt |-> c.createdAt,
     classification |->
        [category |-> cl.category,
         hangupType |-> OrNull(cl.hangupType),
         transferReason |-> OrNull(cl.transferReason),
         spamType |-> OrNull(cl.spamType),
         bookingStatus |-> IF StartsWithBooking(cl.category) THEN "booking-attempt" ELSE "none"]]

\* the catch block (lines 248-265)
fallbackEnrichment(c) ==
    [callId |-> c.id,
     createdAt |-> c.createdAt,
     classification |->
        [category |-> "unknown", hangupType |-> Null, transferReason |-> Null,
         spamType |-> Null, bookingStatus |-> "none"]]

\* the classification of each call before the overrides: what line 173
\* yields, or the catch block's unknown
preOverrideClassifications(calls, response) ==
    [k \in 1..Len(calls) |->
        IF response.kind = "ok" THEN modelClassification(calls[k], response)
        ELSE UnknownClassification]

\* a variant that keeps only the calls the response answers
classifyCallsBatchAnsweredOnly(calls, response) ==
    IF response.kind # "ok" \/ response.calls = None THEN <<>>
    ELSE LET answered == {c.callId : c \in SeqToSet(response.calls[1])}
         IN  SelectSeq([k \in 1..Len(calls) |->
                            Enrichment(calls[k], modelClassification(calls[k], response))],
                       LAMBDA e : e.callId \in answered)

classifyCallsBatch(calls, response) ==
    IF response.kind = "ok"
      THEN [k \in 1..Len(calls) |->
              Enrichment(calls[k],
                  overrideUnknown(callMetadata(calls[k]),
                      overrideBooking(callMetadata(calls[k]),
                          modelClassification(calls[k], response))))]
      ELSE [k \in 1..Len(calls) |-> fallbackEnrichment(calls[k])]

(***************************************************************************)
(* Enrichment store: core/lib/store_enrichment.js.  The enriched directory *)
(* is a function from the day of a file vapi_enriched_<day>.json to the    *)
(* object the file holds, a function from call ids to stored records; a    *)
(* day without a file has the empty object.                                *)
(***************************************************************************)
\* format(new Date(createdAt), 'yyyy-MM-dd')
DateKey(createdAt) ==
    CASE createdAt = "2026-02-02T14:30:00Z" -> "2026-02-02"
      [] createdAt = "2026-02-02T19:05:00Z" -> "2026-02-02"
      [] createdAt = "2026-02-03T16:45:00Z" -> "2026-02-03"

\* the days of the files, in readdirSync order
EnrichedDays == <<"2026-02-02", "2026-02-03">>

EmptyObject == <<>>

EmptyDir == [d \in SeqToSet(EnrichedDays) |-> EmptyObject]

\* enrichmentsByDate (lines 55-77): entries without createdAt are skipped,
\* a later entry of the list replaces an earlier one of the same id and day
enrichmentsByDate(enrichments, day) ==
    LET at == {k \in 1..Len(enrichments) :
                  /\ Truthy(enrichments[k].createdAt)
                  /\ DateKey(enrichments[k].createdAt) = day}
        ids == {enrichments[k].callId : k \in at}
        last(id) == CHOOSE k \in at :
                       /\ enrichments[k].callId = id
                       /\ \A j \in at : enrichments[j].callId = id => j <= k
    IN  [id \in ids |-> enrichments[last(id)]]

\* a variant in which the entries already in the file win
mergedKeepOld(existing, enrichmentData) == existing @@ enrichmentData

\* a variant that writes the new entries only
mergedTruncate(existing, enrichmentData) == enrichmentData

\* { ...existingEnrichments, ...enrichmentData } (line 91)
merged(existing, enrichmentData) == enrichmentData @@ existing

\* saveEnrichments (lines 54-101): the enriched directory after the call
saveEnrichments(enrichments, dir) ==
    [d \in DOMAIN dir |->
        IF DOMAIN enrichmentsByDate(enrichments, d) = {}
          THEN dir[d]
          ELSE merged(dir[d], enrichmentsByDate(enrichments, d))]

\* loadAllEnrichments (lines 10-32): the Map of callId -> record; a later
\* file replaces the entry of an earlier one
loadAllEnrichments(dir) ==
    LET ids == UNION {DOMAIN dir[d] : d \in DOMAIN dir}
        lastDay(id) == EnrichedDays[CHOOSE k \in 1..Len(EnrichedDays) :
                          /\ id \in DOMAIN dir[EnrichedDays[k]]
                          /\ \A j \in 1..Len(EnrichedDays) :
                                id \in DOMAIN dir[EnrichedDays[j]] => j <= k]
    IN  [id \in ids |-> dir[lastDay(id)][id]]

\* a variant that returns every call
getUnenrichedCallsAll(calls, enrichmentMap) == calls

\* getUnenrichedCalls (lines 109-111)
getUnenrichedCalls(calls, enrichmentMap) ==
    SelectSeq(calls, LAMBDA c : c.id \notin DOMAIN enrichmentMap)

\* a call record
CallRecord(id, createdAt, duration, times, endedReason, destination, outputs, evaluation, transcript, messages, toolCalls) ==
    [id |-> id, createdAt |-> createdAt, duration |-> duration,
     startedAt |-> times[1], endedAt |-> times[2], endedReason |-> endedReason,
     destination |-> destination, structuredOutputs |-> outputs,
     successEvaluation |-> evaluation, transcript |-> transcript,
     messages |-> messages, toolCalls |-> toolCalls]

(***************************************************************************)
(* State.                                                                  *)
(*   call, classification   input and outcome of one classifyCall          *)
(*   rawCalls               the calls of the raw directory, in file order  *)
(*   files                  the enriched directory                         *)
(*   batch, response        the calls of the batch in hand and the outcome *)
(*                          of its model request                           *)
(*   preOverride            the batch's classifications before overrides   *)
(*   enrichments            the list last returned by classifyCallsBatch   *)
(*                          and handed to saveEnrichments                  *)
(*   step                   where enrichCalls stands: "idle" (not running),*)
(*                          "requested" (the model request of the batch is *)
(*                          out), "saved" (a single batch is saved),       *)
(*                          "delay" (the pause between two batches),       *)
(*                          "done", "crashed"                              *)
(*   lastSaved, resaved     per call id, the classification last handed to *)
(*                          saveEnrichments (None before the first), and   *)
(*                          whether a save replaced a different one        *)
(*   lastSave               the call ids and the days of the list last     *)
(*                          handed to saveEnrichments                      *)
(*   batchSize              BATCH_SIZE                                     *)
(*   run                    the number of runs of enrichCalls started      *)
(*   unenrichedCalls, i, totalBatches, processedCount                      *)
(*                          the locals of enrichCalls                      *)
(*   events                 what the runs did so far, oldest first         *)
(*   processedCalls, metrics  what the day-over-day report computed: the   *)
(*                          result of processCalls and the counts of       *)
(*                          computeMetrics (None before the report ran)    *)
(***************************************************************************)
VARIABLES call, classification, rawCalls, files, batch, response, preOverride,
          enrichments, step, lastSaved, resaved, lastSave, batchSize, run,
          unenrichedCalls, i, totalBatches, processedCount, events,
          processedCalls, metrics, values, pct, stats, dailyRows, dodReport,
          periodMetrics, pc, targetDate, reportsDir, trace, sent, derived, loop

classifyVars == <<call, classification>>

storeVars == <<files, enrichments, lastSaved, resaved, lastSave>>

batchVars == <<batch, response, preOverride, step>>

reportVars == <<processedCalls, metrics>>

runVars == <<batchSize, run, unenrichedCalls, i, totalBatches, processedCount, events>>

statsVars == <<values, pct, stats>>

rollupVars == <<dailyRows, dodReport>>

scheduleVars == <<pc, targetDate, reportsDir, trace, sent>>

restVars == <<statsVars, rollupVars, periodMetrics, scheduleVars, derived, loop>>

vars == <<call, classification, rawCalls, files, batch, response, preOverride,
          enrichments, step, lastSaved, resaved, lastSave, batchSize, run,
          unenrichedCalls, i, totalBatches, processedCount, events,
          processedCalls, metrics, values, pct, stats, dailyRows, dodReport,
          periodMetrics, pc, targetDate, reportsDir, trace, sent, derived, loop>>

\* the call ids of the model, in order
CallIds == <<"c1", "c2", "c3", "c4", "c5">>

NoCall == CallRecord("c0", Undefined, None, <<None, None>>, Undefined, None, None,
                     None, "", None, None)

NoResponse == Response("none", None)

\* values of the variables a specification does not use
IdleClassify == call = NoCall /\ classification = None

IdleStore ==
    /\ files = EmptyDir
    /\ enrichments = <<>>
    /\ lastSaved = [id \in {} |-> None]
    /\ resaved = {}
    /\ lastSave = [ids |-> {}, days |-> {}]

\* the history of the saves after saveEnrichments(list, dir)
RecordSave(list) ==
    LET ids == {list[k].callId : k \in 1..Len(list)}
        at(id) == {k \in 1..Len(list) : list[k].callId = id}
        \* the classifications handed over for id, oldest first
        entries(id) == SelectSeq(list, LAMBDA e : e.callId = id)
        handed(id) ==
            (IF id \in DOMAIN lastSaved THEN <<lastSaved[id]>> ELSE <<>>)
            \o [k \in 1..Len(entries(id)) |-> entries(id)[k].classification]
        differs(id) == \E k \in 1..(Len(handed(id)) - 1) :
                          handed(id)[k] # handed(id)[k + 1]
    IN  /\ lastSaved' = [id \in DOMAIN lastSaved \cup ids |->
                            IF id \in ids
                              THEN list[CHOOSE k \in at(id) : \A j \in at(id) : j <= k].classification
                              ELSE lastSaved[id]]
        /\ resaved' = resaved \cup {id \in ids : differs(id)}
        /\ lastSave' = [ids |-> ids,
                        days |-> {DateKey(list[k].createdAt) :
                                    k \in {j \in 1..Len(list) : Truthy(list[j].createdAt)}}]

IdleBatch == batch = <<>> /\ response = NoResponse /\ preOverride = <<>> /\ step = "idle"

IdleReport == processedCalls = <<>> /\ metrics = None

IdleStats == values = <<>> /\ pct = 0 /\ stats = None

IdleRollup == dailyRows = <<>> /\ dodReport = None

IdlePeriod == periodMetrics = None

IdleSchedule ==
    /\ pc = "idle"
    /\ targetDate = <<>>
    /\ reportsDir = {}
    /\ trace = <<>>
    /\ sent = None

\* nothing derived from the call yet
NoDerived ==
    [classifierHint |-> <<>>, summaryHint |-> <<>>, resolverHint |-> <<>>,
     classifierDuration |-> <<>>, summaryDuration |-> <<>>, resolverDuration |-> <<>>]

IdleDerive == derived = NoDerived

\* no run of the batch loop
IdleLoop == loop = <<>>

IdleRest == IdleStats /\ IdleRollup /\ IdlePeriod /\ IdleSchedule /\ IdleDerive /\ IdleLoop

IdleRun ==
    /\ batchSize = 1
    /\ run = 0
    /\ unenrichedCalls = <<>>
    /\ i = 0
    /\ totalBatches = 0
    /\ processedCount = 0
    /\ events = <<>>

(***************************************************************************)
(* Inputs of the rule-based classifier.                                    *)
(***************************************************************************)
EndedReasons ==
    {"assistant-forwarded-call", "customer-ended-call", "assistant-ended-call",
     "silence-timed-out", Undefined}

SalesTool == Tool(TRUE, "transferCall", Args("sales", Undefined, Undefined, Undefined))
IntentOnlyTool == Tool(TRUE, "intent_transfer", Args(Undefined, "billing", Undefined, Undefined))
BadArgsTool == Tool(TRUE, "transfer_intent", BadArgs)
LookupTool == Tool(TRUE, "lookupCustomer", Args(Undefined, Undefined, Undefined, Undefined))
NoFunctionTool == Tool(FALSE, Undefined, BadArgs)

MessageLogs ==
    { None,
      Some(<<>>),
      Some(<<Message("assistant", "Great, your Appointment is confirmed for Monday.", None)>>),
      Some(<<Message("user", "hello", None)>>),
      Some(<<Message("customer", "hello", None)>>),
      Some(<<Message("user", "...", None)>>),
      Some(<<Message("tool_calls", Undefined, Some(<<SalesTool>>))>>),
      Some(<<Message("tool_calls", Undefined, Some(<<LookupTool>>)),
             Message("tool_calls", Undefined, Some(<<SalesTool>>))>>),
      Some(<<Message("tool_calls", Undefined, None)>>),
      Some(<<Message("assistant", "hello", Some(<<IntentOnlyTool>>))>>),
      Some(<<Message("assistant", "hello", Some(<<BadArgsTool>>))>>),
      Some(<<Message("assistant", "hello", Some(<<NoFunctionTool, SalesTool>>))>>) }

ToolCallLogs == {None, Some(<<SalesTool>>), Some(<<IntentOnlyTool>>), Some(<<LookupTool, BadArgsTool>>)}

DurationFields == {None, Some(3), Some(5), Some(180)}

\* <<startedAt, endedAt>> in milliseconds
Timestamps == {<<None, None>>, <<Some(0), Some(4000)>>, <<Some(0), Some(60000)>>}

Destinations ==
    {None, Some([description |-> "Sales Department", number |-> "+15550100"]),
     Some([description |-> Undefined, number |-> "+15550100"])}

Output(key, name, result) == [key |-> key, name |-> name, result |-> result]

StructuredOutputs ==
    { None,
      Some(<<Output("7f3a", "Appointment Booked", TRUE)>>),
      Some(<<Output("7f3a", "Appointment Booked", FALSE)>>),
      Some(<<Output("Appointment Booked", "Lead Quality", TRUE)>>),
      Some(<<Output("Appointment Booked", "Appointment Booked", TRUE)>>) }

Evaluation(parses, success, outcome) ==
    [parses |-> parses, call_success |-> success, final_outcome |-> outcome]

SuccessEvaluations ==
    { None,
      Some(Evaluation(FALSE, Undefined, Undefined)),
      Some(Evaluation(TRUE, "no", Undefined)),
      Some(Evaluation(TRUE, "yes", "Call Transferred to service")),
      Some(Evaluation(TRUE, "yes", "Appointment Scheduled for Tuesday")),
      Some(Evaluation(TRUE, "yes", "Caller Transferred to sales after appointment was scheduled")),
      Some(Evaluation(TRUE, "no", "Appointment Scheduled for Tuesday")) }

Transcripts == {"", "Great, your Appointment is confirmed for Monday."}

InitClassify ==
    /\ \E d \in DurationFields, t \in Timestamps, r \in EndedReasons,
          dst \in Destinations, so \in StructuredOutputs, ev \in SuccessEvaluations,
          tr \in Transcripts, ms \in MessageLogs, tc \in ToolCallLogs :
          call = CallRecord("c1", "2026-02-02", d, t, r, dst, so, ev, tr, ms, tc)
    /\ classification = None
    /\ rawCalls = <<>>
    /\ IdleStore
    /\ IdleBatch
    /\ IdleRun
    /\ IdleReport
    /\ IdleRest

\* one invocation of classifyCall on the call record
ClassifyCall ==
    /\ classification = None
    /\ classification' = Some(classifyCall(call))
    /\ UNCHANGED <<restVars, call, rawCalls, storeVars, batchVars, runVars, reportVars>>

NextClassify == ClassifyCall

SpecClassify == InitClassify /\ [][NextClassify]_vars

(***************************************************************************)
(* The store on its own: saveEnrichments called with lists of enrichments  *)
(* of the raw calls.  A call keeps its createdAt, as the raw files hold    *)
(* one record per call id and fetch stores only calls that have one.       *)
(***************************************************************************)
MaxStoreCalls == 2
MaxSave == 2

CreatedAts == {"2026-02-02T14:30:00Z", "2026-02-03T16:45:00Z"}

PlainCall(id, createdAt) ==
    CallRecord(id, createdAt, None, <<None, None>>, "customer-ended-call", None, None,
               None, "", None, None)

StoredClassification(cat, hangupType, transferReason, spamType) ==
    [category |-> cat, hangupType |-> hangupType, transferReason |-> transferReason,
     spamType |-> spamType,
     bookingStatus |-> IF StartsWithBooking(cat) THEN "booking-attempt" ELSE "none"]

StoreClassifications ==
    {StoredClassification("hangup", "moderate", Null, Null),
     StoredClassification("booking-completed", Null, Null, Null)}

\* the enrichments a caller can hand over for the raw calls
StoreEnrichments ==
    {[callId |-> rawCalls[k].id, createdAt |-> rawCalls[k].createdAt, classification |-> cl] :
        k \in 1..Len(rawCalls), cl \in StoreClassifications}

StoreLists == UNION {[1..n -> StoreEnrichments] : n \in 1..MaxSave}

InitStore ==
    /\ \E n \in 1..MaxStoreCalls :
          \E at \in [1..n -> CreatedAts] :
             rawCalls = [k \in 1..n |-> PlainCall(CallIds[k], at[k])]
    /\ IdleClassify
    /\ IdleStore
    /\ IdleBatch
    /\ IdleRun
    /\ IdleReport
    /\ IdleRest

\* one call of saveEnrichments(list, enrichedDir)
SaveEnrichments ==
    \E list \in StoreLists :
       /\ files' = saveEnrichments(list, files)
       /\ RecordSave(list)
       /\ UNCHANGED <<restVars, classifyVars, rawCalls, enrichments, batchVars, runVars, reportVars>>

NextStore == SaveEnrichments

SpecStore == InitStore /\ [][NextStore]_vars

\* the number of files that hold a record of call id
FilesHolding(id) == Cardinality({d \in DOMAIN files : id \in DOMAIN files[d]})

\* C5: a call id saved twice with different classifications has exactly one
\* record in the store as loadAllEnrichments reads it, in exactly one file,
\* and its classification is the one saved last.
C5_LastSaveWins ==
    \A id \in resaved :
       /\ FilesHolding(id) = 1
       /\ id \in DOMAIN loadAllEnrichments(files)
       /\ loadAllEnrichments(files)[id].callId = id
       /\ loadAllEnrichments(files)[id].classification = lastSaved[id]

C5_Witness ==
    \E id \in resaved :
       /\ id \in DOMAIN loadAllEnrichments(files)
       /\ loadAllEnrichments(files)[id].classification = lastSaved[id]

\* C6: a save leaves every stored record of a call id that is not in the
\* list where and as it was, and leaves alone every file of a day for which
\* the list has no entry.
C6_MergeOnWrite ==
    [][/\ \A d \in DOMAIN files : \A id \in DOMAIN files[d] :
             id \notin lastSave'.ids
                => (id \in DOMAIN files'[d] /\ files'[d][id] = files[d][id])
       /\ \A d \in DOMAIN files : d \notin lastSave'.days => files'[d] = files[d]]_vars

\* a file rewritten by the last save still holds the record of a call that
\* was not in the list
C6_Witness ==
    \E d \in lastSave.days : \E id \in DOMAIN files[d] : id \notin lastSave.ids

(***************************************************************************)
(* One batch of enrichCalls: the model request of the batch is out, its    *)
(* outcome arrives, classifyCallsBatch maps it to enrichments and          *)
(* enrichCalls saves them (scripts/enrich.js lines 290-303).               *)
(***************************************************************************)
MaxBatch == 2

\* createdAt of the k-th call
CreatedAtOf(k) == IF k % 2 = 1 THEN "2026-02-02T14:30:00Z" ELSE "2026-02-03T16:45:00Z"

BatchCall(id, createdAt, times, endedReason, outputs, evaluation) ==
    CallRecord(id, createdAt, None, times, endedReason, None, outputs, evaluation, "", None, None)

\* <<structuredOutputs, successEvaluation>> of a call with booking evidence
BookingEvidence ==
    { <<Some(<<Output("Appointment Booked", "Appointment Booked", TRUE)>>), None>>,
      <<Some(<<Output("7f3a", "Appointment Booked", TRUE)>>), None>>,
      <<None, Some(Evaluation(TRUE, "yes", "Appointment Scheduled for Tuesday"))>>,
      <<None, Some(Evaluation(TRUE, "yes", "Caller Transferred to sales after appointment was scheduled"))>> }

\* the shapes of a call of a batch, as <<times, endedReason, outputs, evaluation>>
BatchProfiles ==
    {<<t, r, None, None>> :
        t \in {<<None, None>>, <<Some(0), Some(9499)>>, <<Some(0), Some(9500)>>},
        r \in {"assistant-forwarded-call", "customer-ended-call", "silence-timed-out", Undefined}}
    \cup {<<t, r, ev[1], ev[2]>> :
        t \in {<<Some(0), Some(60000)>>},
        r \in {"assistant-forwarded-call", "customer-ended-call"},
        ev \in BookingEvidence}

\* what the response holds for one call: an entry, or nothing (Missing)
Missing == [category |-> "<missing>", hangupType |-> Null, transferReason |-> Null, spamType |-> Null]

Answers ==
    {Missing,
     Classification("hangup", "moderate", Null, Null),
     Classification("unknown", Null, Null, Null),
     Classification("booking-completed", Null, "sales", Null)}

\* a parsed response with the entries of the answered calls, in batch order
AnsweredResponse(calls, answer) ==
    LET at == SelectSeq([k \in 1..Len(calls) |-> k], LAMBDA k : answer[k] # Missing)
    IN  Response("ok",
            Some([j \in 1..Len(at) |->
                    [callId |-> calls[at[j]].id,
                     category |-> answer[at[j]].category,
                     hangupType |-> answer[at[j]].hangupType,
                     transferReason |-> answer[at[j]].transferReason,
                     spamType |-> answer[at[j]].spamType]]))

\* the outcomes of the model request for a batch
Responses(calls) ==
    {Response("failed", None), Response("unparseable", None), Response("ok", None)}
    \cup {AnsweredResponse(calls, answer) : answer \in [1..Len(calls) -> Answers]}

InitBatch ==
    /\ \E n \in 1..MaxBatch :
          \E p \in [1..n -> BatchProfiles] :
             batch = [k \in 1..n |->
                        BatchCall(CallIds[k], CreatedAtOf(k), p[k][1], p[k][2], p[k][3], p[k][4])]
    /\ response = NoResponse
    /\ preOverride = <<>>
    /\ step = "requested"
    /\ rawCalls = <<>>
    /\ IdleClassify
    /\ IdleStore
    /\ IdleRun
    /\ IdleReport
    /\ IdleRest

\* the outcome of the request, one of rs, arrives: lines 166-265 and the
\* save of line 300
BatchResponseFrom(rs) ==
    /\ step = "requested"
    /\ \E r \in rs :
          /\ response' = r
          /\ preOverride' = preOverrideClassifications(batch, r)
          /\ enrichments' = classifyCallsBatch(batch, r)
          /\ files' = saveEnrichments(classifyCallsBatch(batch, r), files)
          /\ RecordSave(classifyCallsBatch(batch, r))
    /\ step' = "saved"
    /\ UNCHANGED <<restVars, classifyVars, rawCalls, batch, runVars, reportVars>>

BatchResponse == BatchResponseFrom(Responses(batch))

NextBatch == BatchResponse

SpecBatch == InitBatch /\ [][NextBatch]_vars

\* the classification the store holds for the k-th call of the batch
StoredOf(k) == loadAllEnrichments(files)[batch[k].id].classification

\* the response has no entry for the k-th call of the batch
MissingFromResponse(k) ==
    /\ response.kind = "ok"
    /\ \/ response.calls = None
       \/ \A j \in 1..Len(response.calls[1]) : response.calls[1][j].callId # batch[k].id

\* C2: after the batch is saved, every call whose appointmentBooked flag is
\* true is stored as booking-completed with hangupType, transferReason and
\* spamType null, for every outcome of the model request.
C2_BookedIsBookingCompleted ==
    step = "saved" =>
        \A k \in 1..Len(batch) :
            callMetadata(batch[k]).appointmentBooked =>
                /\ StoredOf(k).category = "booking-completed"
                /\ StoredOf(k).hangupType = Null
                /\ StoredOf(k).transferReason = Null
                /\ StoredOf(k).spamType = Null

\* C3: after a failed model request every call of the batch is stored with
\* what Override B makes of unknown: transferred for an
\* assistant-forwarded-call, spam (duration < 10) or hangup (duration >= 10)
\* for a customer-ended-call or silence-timed-out call.
C3_OverrideAfterFailure ==
    (step = "saved" /\ response.kind = "failed") =>
        \A k \in 1..Len(batch) :
            /\ batch[k].endedReason = "assistant-forwarded-call"
                  => StoredOf(k).category = "transferred"
            /\ batch[k].endedReason \in {"customer-ended-call", "silence-timed-out"}
                  => StoredOf(k).category =
                        (IF enrichDuration(batch[k]) < 10 THEN "spam" ELSE "hangup")

\* C4: classifyCallsBatch returns one enrichment per call of the batch, in
\* order and with the call's id, whatever the outcome of the request; a call
\* the response does not answer, and every call of an unparseable or failed
\* batch, is unknown with null sub-fields before the overrides; every call
\* ends with a classification in the store.
C4_OneEnrichmentPerCall ==
    step = "saved" =>
        /\ Len(enrichments) = Len(batch)
        /\ Len(preOverride) = Len(batch)
        /\ \A k \in 1..Len(batch) :
              /\ enrichments[k].callId = batch[k].id
              /\ (MissingFromResponse(k) \/ response.kind \in {"unparseable", "failed"})
                    => preOverride[k] = UnknownClassification
              /\ batch[k].id \in DOMAIN loadAllEnrichments(files)

\* a response that answers one call of a two-call batch and not the other
C4_Witness ==
    /\ step = "saved"
    /\ Len(batch) = 2
    /\ response.kind = "ok"
    /\ ~MissingFromResponse(1)
    /\ MissingFromResponse(2)
    /\ preOverride[2] = UnknownClassification
    /\ enrichments[2].callId = batch[2].id

(***************************************************************************)
(* Properties of the rule-based classifier.                                *)
(***************************************************************************)
\* the structured output named 'Appointment Booked' has result true
StructuredBookingTrue(c) ==
    /\ c.structuredOutputs # None
    /\ \E k \in 1..Len(c.structuredOutputs[1]) :
          /\ c.structuredOutputs[1][k].name = "Appointment Booked"
          /\ c.structuredOutputs[1][k].result = TRUE
          /\ \A j \in 1..(k - 1) : c.structuredOutputs[1][j].name # "Appointment Booked"

\* a transfer tool occurs in the top-level tool-call log or in a message
AllTools(c) ==
    (IF c.toolCalls = None THEN {} ELSE SeqToSet(c.toolCalls[1]))
    \cup (IF c.messages = None THEN {}
          ELSE UNION {IF m.toolCalls = None THEN {} ELSE SeqToSet(m.toolCalls[1]) :
                      m \in SeqToSet(c.messages[1])})

TransferToolInvoked(c) ==
    \E t \in AllTools(c) : t.fn /\ t.name \in TRANSFER_TOOL_NAMES

TransferNotes ==
    {"hung-up-during-transfer-to-" \o d :
        d \in {"sales", "billing", "Unknown Destination", "unknown-destination"}}

\* the decision list as the specification states it (section 4.2)
StatedRule(c) ==
    IF classifyDurationMs(c) < 5 * 1000 THEN 1
    ELSE IF c.endedReason = "assistant-forwarded-call" THEN 2
    ELSE IF StructuredBookingTrue(c) THEN 3
    ELSE IF vapiSuccess(c) \/ hasConfirmationPhrase(c) THEN 4
    ELSE IF TransferToolInvoked(c) THEN 5
    ELSE IF c.endedReason = "customer-ended-call" THEN 6
    ELSE IF c.endedReason = "assistant-ended-call" THEN 7
    ELSE 8

\* C9: classifyCall returns the outcome of the first matching rule of the
\* stated list and of no later rule - (1) spam/short-abandoned, (2)
\* transferred with the resolved destination, (3, 4) the completed-booking
\* category, (5) hangup/hung-up-during-transfer-to-..., (6)
\* hangup/customer-hung-up, (7, 8) the sentinel - and it always returns.
\* The completed-booking category is taken under either of its two names
\* (booking-completed in the taxonomy, booking-success in this classifier):
\* C10 settles the name.
C9_FirstMatchingRule ==
    classification # None =>
        LET r == classification[1]
            n == StatedRule(call)
        IN  /\ ~r.threw
            /\ (n = 1) => (r.category = "spam" /\ r.transferReason = "short-abandoned")
            /\ (n = 2) => (r.category = "transferred"
                            /\ r.transferReason = resolvedDestination(call))
            /\ (n \in {3, 4}) => (r.category \in {"booking-completed", "booking-success"})
            /\ (n = 5) => (r.category = "hangup" /\ r.transferReason \in TransferNotes)
            /\ (n = 6) => (r.category = "hangup" /\ r.transferReason = "customer-hung-up")
            /\ (n \in {7, 8}) => r.needs_analysis

MaxCalls == 3
MaxRuns == 2

\* values of --batch-size
BatchSizes == {1, 2}

RunProfiles ==
    {<<<<Some(0), Some(9499)>>, "customer-ended-call", None, None>>,
     <<<<Some(0), Some(60000)>>, Undefined,
       Some(<<Output("Appointment Booked", "Appointment Booked", TRUE)>>), None>>}

\* the outcomes of the model request the runs are checked with
RunResponses(calls) ==
    {Response("failed", None),
     Response("ok", None),
     AnsweredResponse(calls, [k \in 1..Len(calls) |-> Classification("hangup", "moderate", Null, Null)])}

\* Math.ceil(n / size), size > 0
CeilDiv(n, size) == (n + size - 1) \div size

\* unenrichedCalls.slice(batchStart, batchEnd) of loop index idx (lines 291-293)
batchSlice(calls, idx, size) ==
    LET batchStart == idx * size
        batchEnd == IF batchStart + size < Len(calls) THEN batchStart + size ELSE Len(calls)
    IN  SubSeq(calls, batchStart + 1, batchEnd)

\* a variant that pauses after every batch
moreBatchesAlways(idx, total) == idx < total

\* the test of line 306
moreBatches(idx, total) == idx < total - 1

IdsOf(calls) == {calls[k].id : k \in 1..Len(calls)}

\* the call ids the enriched directory holds
StoreIds == UNION {DOMAIN files[d] : d \in DOMAIN files}

Event(ev, ids, have) == [ev |-> ev, run |-> run, i |-> i, ids |-> ids, have |-> have]

Init ==
    /\ \E n \in 1..MaxCalls :
          \E p \in [1..n -> RunProfiles] :
             rawCalls = [k \in 1..n |->
                           BatchCall(CallIds[k], CreatedAtOf(k), p[k][1], p[k][2], p[k][3], p[k][4])]
    /\ batchSize \in BatchSizes
    /\ run = 0
    /\ unenrichedCalls = <<>>
    /\ i = 0
    /\ totalBatches = 0
    /\ processedCount = 0
    /\ events = <<>>
    /\ IdleReport
    /\ IdleRest
    /\ IdleClassify
    /\ IdleStore
    /\ IdleBatch

\* lines 273-298: a run starts, finds the calls to enrich and either returns
\* or sends the request of the first batch
StartRun ==
    /\ step \in {"idle", "done", "crashed"}
    /\ run < MaxRuns
    /\ run' = run + 1
    /\ LET todo == getUnenrichedCalls(rawCalls, loadAllEnrichments(files))
           start == [ev |-> "start", run |-> run + 1, i |-> 0, ids |-> IdsOf(todo), have |-> StoreIds]
       IN  /\ unenrichedCalls' = todo
           /\ i' = 0
           /\ processedCount' = 0
           /\ IF Len(todo) = 0
                THEN /\ totalBatches' = 0
                     /\ batch' = <<>>
                     /\ step' = "done"
                     /\ events' = events \o <<start, [start EXCEPT !.ev = "done", !.ids = {}, !.have = {}]>>
                ELSE /\ totalBatches' = CeilDiv(Len(todo), batchSize)
                     /\ batch' = batchSlice(todo, 0, batchSize)
                     /\ step' = "requested"
                     /\ events' = events \o
                           <<start, [start EXCEPT !.ev = "request", !.have = {},
                                                  !.ids = IdsOf(batchSlice(todo, 0, batchSize))]>>
    /\ UNCHANGED <<restVars, classifyVars, rawCalls, storeVars, response, preOverride, batchSize, reportVars>>

\* lines 298-309: the outcome of the request arrives; the batch is mapped,
\* saved and counted, and the run pauses or ends
BatchDone ==
    /\ step = "requested"
    /\ run > 0
    /\ \E r \in RunResponses(batch) :
          /\ response' = r
          /\ preOverride' = preOverrideClassifications(batch, r)
          /\ enrichments' = classifyCallsBatch(batch, r)
          /\ files' = saveEnrichments(classifyCallsBatch(batch, r), files)
          /\ RecordSave(classifyCallsBatch(batch, r))
          /\ processedCount' = processedCount + Len(classifyCallsBatch(batch, r))
    /\ IF moreBatches(i, totalBatches)
         THEN /\ step' = "delay"
              /\ events' = events \o <<Event("saved", IdsOf(batch), {}), Event("delay", {}, {})>>
              /\ i' = i
         ELSE IF i + 1 < totalBatches
           THEN /\ step' = "requested"
                /\ i' = i + 1
                /\ events' = events \o
                      <<Event("saved", IdsOf(batch), {}),
                        [Event("request", IdsOf(batchSlice(unenrichedCalls, i + 1, batchSize)), {})
                            EXCEPT !.i = i + 1]>>
           ELSE /\ step' = "done"
                /\ i' = i + 1
                /\ events' = events \o <<Event("saved", IdsOf(batch), {}), Event("done", {}, {})>>
    /\ batch' = IF ~moreBatches(i, totalBatches) /\ i + 1 < totalBatches
                  THEN batchSlice(unenrichedCalls, i + 1, batchSize) ELSE batch
    /\ UNCHANGED <<restVars, classifyVars, rawCalls, batchSize, run, unenrichedCalls, totalBatches, reportVars>>

\* line 307: the pause is over; the loop goes on to the next batch
DelayElapsed ==
    /\ step = "delay"
    /\ i' = i + 1
    /\ IF i + 1 < totalBatches
         THEN /\ batch' = batchSlice(unenrichedCalls, i + 1, batchSize)
              /\ step' = "requested"
              /\ events' = events \o
                    <<[Event("request", IdsOf(batchSlice(unenrichedCalls, i + 1, batchSize)), {})
                          EXCEPT !.i = i + 1]>>
         ELSE /\ batch' = batch
              /\ step' = "done"
              /\ events' = events \o <<[Event("done", {}, {}) EXCEPT !.i = i + 1]>>
    /\ UNCHANGED <<restVars, classifyVars, rawCalls, storeVars, response, preOverride, batchSize, run,
                   unenrichedCalls, totalBatches, processedCount, reportVars>>

\* the process is killed while it waits
Crash ==
    /\ step \in {"requested", "delay"}
    /\ run > 0
    /\ step' = "crashed"
    /\ events' = events \o <<Event("crash", {}, {})>>
    /\ UNCHANGED <<restVars, classifyVars, rawCalls, storeVars, batch, response, preOverride, batchSize, run,
                   unenrichedCalls, i, totalBatches, processedCount, reportVars>>

Next == StartRun \/ BatchDone \/ DelayElapsed \/ Crash

Spec == Init /\ [][Next]_vars

\* the positions of the events of kind ev
EventsOf(ev) == {p \in 1..Len(events) : events[p].ev = ev}

\* the position of the start event of run r
StartOf(r) == CHOOSE p \in EventsOf("start") : events[p].run = r

\* the call ids run r sent to the model
RequestedIn(r) == UNION {events[p].ids : p \in {q \in EventsOf("request") : events[q].run = r}}

C8_SequentialBatches ==
    /\ \A p \in EventsOf("request") :
          IF events[p].i = 0
            THEN p > 1 /\ events[p - 1].ev = "start" /\ events[p - 1].run = events[p].run
            ELSE /\ p > 2
                 /\ events[p - 1] = [events[p] EXCEPT !.ev = "delay", !.i = events[p].i - 1, !.ids = {}]
                 /\ events[p - 2].ev = "saved"
                 /\ events[p - 2].run = events[p].run
                 /\ events[p - 2].i = events[p].i - 1
    /\ \A p \in EventsOf("saved") :
          p > 1 /\ events[p - 1] = [events[p] EXCEPT !.ev = "request"]
    /\ \A p \in EventsOf("request") :
          events[p].run = run =>
             events[p].ids =
                {unenrichedCalls[k].id :
                    k \in {j \in 1..Len(unenrichedCalls) :
                              /\ j > events[p].i * batchSize
                              /\ j <= (events[p].i + 1) * batchSize}}
    /\ step = "requested" =>
          \A k \in 1..Len(unenrichedCalls) :
             k <= i * batchSize => unenrichedCalls[k].id \in StoreIds
    /\ \A p \in EventsOf("delay") :
          p < Len(events) => events[p + 1].ev \in {"request", "crash"}
    /\ \A p \in EventsOf("done") : events[p - 1].ev \in {"saved", "start"}

\* a run of several batches ended, with a pause between its batches
C8_Witness ==
    /\ step = "done"
    /\ totalBatches >= 2
    /\ \E p \in EventsOf("delay") : events[p].run = run
    /\ events[Len(events) - 1].ev = "saved"

(***************************************************************************)
(* Day-over-day report: scripts/report-day-over-day.js, processCalls and   *)
(* the counts of computeMetrics.                                           *)
(***************************************************************************)
\* loadEnrichments of the report (lines 483-505): the Map of e.callId -> e
\* over the records of every file; a later file replaces the entry of an
\* earlier one (a file holds one record per call id)
loadEnrichments(dir) ==
    LET holds(d, id) == \E key \in DOMAIN dir[d] : dir[d][key].callId = id
        ids == UNION {{dir[d][key].callId : key \in DOMAIN dir[d]} : d \in DOMAIN dir}
        lastDay(id) == EnrichedDays[CHOOSE k \in 1..Len(EnrichedDays) :
                          /\ holds(EnrichedDays[k], id)
                          /\ \A j \in 1..Len(EnrichedDays) : holds(EnrichedDays[j], id) => j <= k]
    IN  [id \in ids |->
            LET d == lastDay(id)
            IN  dir[d][CHOOSE key \in DOMAIN dir[d] : dir[d][key].callId = id]]

\* getCallDuration (lines 577-585), in milliseconds
getCallDuration(c) ==
    LET d == IF c.duration = None THEN 0 ELSE c.duration[1] * 1000
    IN  IF d = 0 /\ c.startedAt # None /\ c.endedAt # None
          THEN c.endedAt[1] - c.startedAt[1]
          ELSE d

\* args.destination || args.intent || args.department || args.queue || null
intentOf(args) ==
    IF Truthy(args.destination) THEN args.destination
    ELSE IF Truthy(args.intent) THEN args.intent
    ELSE IF Truthy(args.department) THEN args.department
    ELSE IF Truthy(args.queue) THEN args.queue
    ELSE Null

\* no value returned: the search goes on
Continue == "<continue>"

\* lines 589-595 on one toolCalls array: the first transfer tool, if it has
\* arguments that parse, ends the search with intentOf(args)
toolIntent(ts) ==
    LET hits == {k \in 1..Len(ts) : ts[k].fn /\ ts[k].name \in TRANSFER_TOOL_NAMES}
    IN  IF hits = {} THEN Continue
        ELSE IF ts[Min(hits)].arguments.kind = "json" THEN intentOf(ts[Min(hits)].arguments)
        ELSE Continue

\* getTransferIntent (lines 587-612)
getTransferIntent(c) ==
    LET top == IF c.toolCalls = None THEN Continue ELSE toolIntent(c.toolCalls[1])
        ms == IF c.messages = None THEN <<>> ELSE c.messages[1]
        ends == {k \in 1..Len(ms) :
                    ms[k].toolCalls # None /\ toolIntent(ms[k].toolCalls[1]) # Continue}
    IN  IF top # Continue THEN top
        ELSE IF ends = {} THEN Null
        ELSE toolIntent(ms[Min(ends)].toolCalls[1])

\* a variant that also takes a message of role customer as speech
hasCustomerSpeechAnyRole(c) ==
    /\ c.messages # None
    /\ \E k \in 1..Len(c.messages[1]) :
          c.messages[1][k].role \in {"user", "customer"} /\ HasWord(c.messages[1][k].message)

\* hasCustomerSpeech (lines 809-818)
hasCustomerSpeech(c) ==
    /\ c.messages # None
    /\ \E k \in 1..Len(c.messages[1]) :
          c.messages[1][k].role = "user" /\ HasWord(c.messages[1][k].message)

\* isSpamLikelyShortNoSpeech (lines 820-822), the duration in milliseconds
isSpamLikelyShortNoSpeech(c, durationMs) == durationMs <= 10 * 1000 /\ ~hasCustomerSpeech(c)

\* a variant that tests the spam-likely signal before anything else
routingStatusSilentFirst(endedReason, transferAttempted, spamLikely, category) ==
    IF spamLikely THEN "spam-likely"
    ELSE IF endedReason = "assistant-forwarded-call" THEN "routed"
    ELSE IF transferAttempted /\ endedReason = "customer-ended-call" THEN "hangup-before-route"
    ELSE IF category = "spam" THEN "spam"
    ELSE "not-routed"

\* a variant that tests the stored category before the spam-likely signal
routingStatusSpamFirst(endedReason, transferAttempted, spamLikely, category) ==
    IF endedReason = "assistant-forwarded-call" THEN "routed"
    ELSE IF transferAttempted /\ endedReason = "customer-ended-call" THEN "hangup-before-route"
    ELSE IF category = "spam" THEN "spam"
    ELSE IF spamLikely THEN "spam-likely"
    ELSE "not-routed"

\* a variant without the final else
routingStatusNoElse(endedReason, transferAttempted, spamLikely, category) ==
    IF endedReason = "assistant-forwarded-call" THEN "routed"
    ELSE IF transferAttempted /\ endedReason = "customer-ended-call" THEN "hangup-before-route"
    ELSE IF spamLikely THEN "spam-likely"
    ELSE IF category = "spam" THEN "spam"
    ELSE IF category = "unknown" THEN "not-routed"
    ELSE Undefined

\* the if/else chain of lines 679-689
routingStatus(endedReason, transferAttempted, spamLikely, category) ==
    IF endedReason = "assistant-forwarded-call" THEN "routed"
    ELSE IF transferAttempted /\ endedReason = "customer-ended-call" THEN "hangup-before-route"
    ELSE IF spamLikely THEN "spam-likely"
    ELSE IF category = "spam" THEN "spam"
    ELSE "not-routed"

\* the record processCalls makes of one call (lines 652-713; email and
\* summary left out)
processCall(c, enrichmentMap) ==
    LET known == c.id \in DOMAIN enrichmentMap
        cl == enrichmentMap[c.id].classification
        category == IF known
                      THEN ToLowerCase(IF Truthy(cl.category) THEN cl.category ELSE "unknown")
                      ELSE "unknown"
        transferReason == IF known THEN OrNull(cl.transferReason) ELSE Null
        duration == getCallDuration(c)
        transferIntent == getTransferIntent(c)
        spamLikely == isSpamLikelyShortNoSpeech(c, duration)
        transferAttempted == Truthy(transferIntent)
        status == routingStatus(c.endedReason, transferAttempted, spamLikely, category)
    IN  [callId |-> c.id,
         endedReason |-> c.endedReason,
         category |-> category,
         hangupType |-> IF known THEN OrNull(cl.hangupType) ELSE Null,
         transferReason |-> transferReason,
         spamType |-> IF known THEN OrNull(cl.spamType) ELSE Null,
         duration |-> duration,
         transferIntent |-> transferIntent,
         routingStatus |-> status,
         routed |-> status = "routed",
         transferAttempted |-> transferAttempted,
         intentIdentified |-> Truthy(transferIntent) \/ Truthy(transferReason),
         notRouted |-> status = "not-routed",
         hangupBeforeRoute |-> status = "hangup-before-route",
         spamLikely |-> spamLikely]

processCalls(calls, enrichmentMap) ==
    [k \in 1..Len(calls) |-> processCall(calls[k], enrichmentMap)]

\* processedCalls.filter(c => c.routingStatus === status).length
CountStatus(processed, status) ==
    Cardinality({k \in 1..Len(processed) : processed[k].routingStatus = status})

\* line 771: Math.round(((transferAttempted - routedCalls) / transferAttempted) * 100),
\* 0 without a transfer attempt; Math.round(x) is floor(x + 1/2)
transferFailureRate(transferAttempted, routedCalls) ==
    IF transferAttempted > 0
      THEN (200 * (transferAttempted - routedCalls) + transferAttempted) \div (2 * transferAttempted)
      ELSE 0

\* the counts of computeMetrics (lines 717-725) and the transfer failure
\* rate (line 771)
computeMetrics(calls, enrichmentMap) ==
    LET processed == processCalls(calls, enrichmentMap)
    IN  [totalCalls |-> Len(processed),
         transferFailureRate |->
            transferFailureRate(
               Cardinality({k \in 1..Len(processed) : processed[k].transferAttempted}),
               CountStatus(processed, "routed")),
         spamCalls |-> CountStatus(processed, "spam"),
         spamLikelyCalls |-> CountStatus(processed, "spam-likely"),
         intentIdentified |-> Cardinality({k \in 1..Len(processed) : processed[k].intentIdentified}),
         transferAttempted |-> Cardinality({k \in 1..Len(processed) : processed[k].transferAttempted}),
         routedCalls |-> CountStatus(processed, "routed"),
         notRoutedCalls |-> CountStatus(processed, "not-routed"),
         hangupBeforeRoute |-> CountStatus(processed, "hangup-before-route")]

(***************************************************************************)
(* The report over a day's calls and the enrichments stored for them.      *)
(***************************************************************************)
MaxReportCalls == 2

\* <<messages, toolCalls>> of a call of the report
ReportInteractions ==
    { <<None, None>>,
      <<Some(<<Message("user", "hello", None)>>), None>>,
      <<Some(<<Message("user", "...", None),
               Message("assistant", "hello", Some(<<IntentOnlyTool>>))>>), None>>,
      <<Some(<<Message("user", "hello", None)>>), Some(<<BadArgsTool, SalesTool>>)>> }

ReportCall(id, createdAt, duration, endedReason, interaction) ==
    CallRecord(id, createdAt, duration, <<None, None>>, endedReason, None, None, None, "", interaction[1], interaction[2])

\* what the store holds for a call of the report: nothing (Missing) or a
\* classification
ReportStored ==
    {Missing,
     Classification("Spam", Null, Null, "short-call"),
     Classification("transferred", Null, "sales", Null)}

InitReport ==
    /\ \E n \in 1..MaxReportCalls :
          \E d \in [1..n -> {Some(10), Some(11)}],
             r \in [1..n -> {"assistant-forwarded-call", "customer-ended-call", "silence-timed-out"}],
             x \in [1..n -> ReportInteractions],
             st \in [1..n -> ReportStored] :
             /\ rawCalls = [k \in 1..n |-> ReportCall(CallIds[k], CreatedAtOf(k), d[k], r[k], x[k])]
             /\ files = saveEnrichments(
                           SelectSeq([k \in 1..n |->
                                         [callId |-> CallIds[k], createdAt |-> CreatedAtOf(k),
                                          classification |->
                                             StoredClassification(st[k].category, st[k].hangupType,
                                                                  st[k].transferReason, st[k].spamType)]],
                                     LAMBDA e : e.classification.category # Missing.category),
                           EmptyDir)
    /\ enrichments = <<>>
    /\ lastSaved = [id \in {} |-> None]
    /\ resaved = {}
    /\ lastSave = [ids |-> {}, days |-> {}]
    /\ IdleClassify
    /\ IdleBatch
    /\ IdleRun
    /\ IdleReport
    /\ IdleRest

\* computeMetrics(calls, enrichmentMap) over the calls and the store
ComputeMetrics ==
    /\ metrics = None
    /\ processedCalls' = processCalls(rawCalls, loadEnrichments(files))
    /\ metrics' = Some(computeMetrics(rawCalls, loadEnrichments(files)))
    /\ UNCHANGED <<restVars, classifyVars, rawCalls, storeVars, batchVars, runVars>>

NextReport == ComputeMetrics

SpecReport == InitReport /\ [][NextReport]_vars

RoutingStatuses == {"routed", "not-routed", "hangup-before-route", "spam", "spam-likely"}

\* C1: processCalls gives every call one routing status out of the five,
\* and the five counts of computeMetrics add up to totalCalls, the number of
\* calls.
C1_RoutingPartition ==
    metrics # None =>
        /\ Len(processedCalls) = Len(rawCalls)
        /\ \A k \in 1..Len(rawCalls) :
              /\ processedCalls[k].callId = rawCalls[k].id
              /\ processedCalls[k].routingStatus \in RoutingStatuses
        /\ metrics[1].totalCalls = Len(rawCalls)
        /\ metrics[1].routedCalls + metrics[1].notRoutedCalls + metrics[1].hangupBeforeRoute
              + metrics[1].spamLikelyCalls + metrics[1].spamCalls = metrics[1].totalCalls

\* a report over two calls that fall into different buckets, one of them by
\* the final else
C1_Witness ==
    /\ metrics # None
    /\ metrics[1].totalCalls = 2
    /\ metrics[1].notRoutedCalls = 1
    /\ metrics[1].spamCalls + metrics[1].spamLikelyCalls + metrics[1].hangupBeforeRoute = 1

(***************************************************************************)
(* One call seen by both the rule-based classifier and the routing-status  *)
(* resolver of the day-over-day report: classifyCall(call) and             *)
(* computeMetrics([call], enrichmentMap), in either order.                 *)
(***************************************************************************)
\* <<call.duration, <<startedAt, endedAt>>>>
CallDurations ==
    {<<Some(3), <<None, None>>>>, <<Some(10), <<None, None>>>>, <<Some(11), <<None, None>>>>,
     <<None, <<Some(0), Some(180000)>>>>}

InitCall ==
    /\ \E d \in CallDurations, r \in EndedReasons,
          so \in {None, Some(<<Output("7f3a", "Appointment Booked", TRUE)>>)},
          ms \in MessageLogs, tc \in ToolCallLogs, st \in ReportStored :
          /\ call = CallRecord("c1", CreatedAtOf(1), d[1], d[2], r, None, so, None, "", ms, tc)
          /\ files = saveEnrichments(
                        IF st = Missing THEN <<>>
                        ELSE <<[callId |-> "c1", createdAt |-> CreatedAtOf(1),
                                classification |->
                                   StoredClassification(st.category, st.hangupType,
                                                        st.transferReason, st.spamType)]>>,
                        EmptyDir)
    /\ rawCalls = <<call>>
    /\ classification = None
    /\ enrichments = <<>>
    /\ lastSaved = [id \in {} |-> None]
    /\ resaved = {}
    /\ lastSave = [ids |-> {}, days |-> {}]
    /\ IdleBatch
    /\ IdleRun
    /\ IdleReport
    /\ IdleRest

NextCall == ClassifyCall \/ ComputeMetrics

SpecCall == InitCall /\ [][NextCall]_vars

\* no booking signal: neither the structured output, nor the success
\* evaluation, nor a confirmation phrase
NoBookingSignal(c) ==
    ~StructuredBookingTrue(c) /\ ~vapiSuccess(c) /\ ~hasConfirmationPhrase(c)

\* some transfer tool call of the call has arguments that parse, with
\* destination dest
ParsedTransferTo(c, dest) ==
    \E t \in AllTools(c) :
       /\ t.fn
       /\ t.name \in TRANSFER_TOOL_NAMES
       /\ t.arguments.kind = "json"
       /\ t.arguments.destination = dest

\* C11: a call with a parsed transfer-tool call to "sales" that the customer
\* ended, of 5 s or more and without booking signal, is classified hangup
\* with the note hung-up-during-transfer-to-sales by classifyCall and is
\* tagged hangup-before-route by the resolver.
C11_FailedTransfer ==
    (/\ ParsedTransferTo(call, "sales")
     /\ call.endedReason = "customer-ended-call"
     /\ classifyDurationMs(call) >= 5 * 1000
     /\ NoBookingSignal(call))
        => /\ classification # None =>
                 /\ ~classification[1].threw
                 /\ classification[1].category = "hangup"
                 /\ classification[1].transferReason = "hung-up-during-transfer-to-sales"
           /\ metrics # None => processedCalls[1].routingStatus = "hangup-before-route"

\* the call has no messages
NoMessages(c) == c.messages = None \/ c.messages = Some(<<>>)

\* C12 (as stated): a call of 3 s without messages is classified spam by
\* classifyCall and tagged spam-likely by the resolver, whatever its stored
\* category.
C12_ShortSilentCall ==
    (call.duration = Some(3) /\ NoMessages(call))
        => /\ classification # None =>
                 (~classification[1].threw /\ classification[1].category = "spam")
           /\ metrics # None => processedCalls[1].routingStatus = "spam-likely"

\* C12 (amended): a call of 3 s without messages is classified spam by
\* classifyCall; the resolver tags it spam-likely, not spam, also when its
\* stored category is spam, unless one of the two earlier routing rules
\* matches: a forwarded call is routed, and a call with a transfer hint
\* that the customer ended is hangup-before-route.
C12_ShortSilentCallUnrouted ==
    (call.duration = Some(3) /\ NoMessages(call))
        => /\ classification # None =>
                 (~classification[1].threw /\ classification[1].category = "spam")
           /\ metrics # None =>
                 processedCalls[1].routingStatus =
                    (IF call.endedReason = "assistant-forwarded-call" THEN "routed"
                     ELSE IF Truthy(getTransferIntent(call))
                             /\ call.endedReason = "customer-ended-call"
                       THEN "hangup-before-route"
                     ELSE "spam-likely")

\* a 3 s call without messages, stored as spam, classified spam and tagged
\* spam-likely
C12_Witness ==
    /\ call.duration = Some(3)
    /\ NoMessages(call)
    /\ call.toolCalls = None
    /\ call.endedReason = "customer-ended-call"
    /\ "c1" \in DOMAIN loadEnrichments(files)
    /\ ToLowerCase(loadEnrichments(files)["c1"].classification.category) = "spam"
    /\ classification # None
    /\ classification[1].category = "spam"
    /\ metrics # None
    /\ processedCalls[1].routingStatus = "spam-likely"

\* the category the store holds for the call, lower-cased; "unknown" when
\* the store has no record of the call or the record has no category
StoredCategory(c) ==
    LET day == DateKey(c.createdAt)
    IN  IF c.id \in DOMAIN files[day] /\ Truthy(files[day][c.id].classification.category)
          THEN ToLowerCase(files[day][c.id].classification.category)
          ELSE "unknown"

\* at least one message of the customer holds a word
CustomerSpoke(c) ==
    /\ c.messages # None
    /\ \E m \in SeqToSet(c.messages[1]) : m.role = "user" /\ HasWord(m.message)

\* the routing rules in the stated order
StatedRouting(c) ==
    IF c.endedReason = "assistant-forwarded-call" THEN "routed"
    ELSE IF getTransferIntent(c) # Null /\ c.endedReason = "customer-ended-call"
      THEN "hangup-before-route"
    ELSE IF getCallDuration(c) <= 10 * 1000 /\ ~CustomerSpoke(c) THEN "spam-likely"
    ELSE IF StoredCategory(c) = "spam" THEN "spam"
    ELSE "not-routed"

\* C13: the routing status of a call is that of the first matching rule in
\* the order forwarded -> routed, transfer hint and customer-ended ->
\* hangup-before-route, at most 10 s and no customer speech -> spam-likely,
\* category spam -> spam, otherwise not-routed.
C13_RoutingOrder ==
    metrics # None => processedCalls[1].routingStatus = StatedRouting(call)

\* a forwarded call that is short, silent and stored as spam is routed
C13_Witness ==
    /\ metrics # None
    /\ call.endedReason = "assistant-forwarded-call"
    /\ call.duration = Some(3)
    /\ NoMessages(call)
    /\ StoredCategory(call) = "spam"
    /\ processedCalls[1].routingStatus = "routed"

(***************************************************************************)
(* A batch of one call against everything the model can answer for it:     *)
(* any category string or none, any sub-fields.                            *)
(***************************************************************************)
\* the categories of the taxonomy
Categories ==
    {"booking-completed", "booking-abandoned", "booking-transferred", "transferred",
     "spam", "hangup", "unknown"}

\* <<startedAt, endedAt>> around the 10 s and 30 s thresholds of Override 2
OverrideTimes ==
    {<<None, None>>, <<Some(0), Some(9499)>>, <<Some(0), Some(9500)>>,
     <<Some(0), Some(29499)>>, <<Some(0), Some(29500)>>}

OverrideProfiles ==
    {<<t, r, None, None>> : t \in OverrideTimes, r \in EndedReasons}
    \cup {<<t, r, ev[1], ev[2]>> :
        t \in {<<Some(0), Some(29500)>>},
        r \in {"assistant-forwarded-call", "customer-ended-call"},
        ev \in BookingEvidence}

\* the sub-fields <<hangupType, transferReason, spamType>> of an answer
AnswerSubFields ==
    {<<Null, Null, Null>>, <<Undefined, Undefined, Undefined>>, <<"moderate", Null, Null>>,
     <<Null, "sales", Null>>, <<Null, Null, "robocall">>, <<"high-value", "sales", "robocall">>}

\* what the model can answer for one call: a category of the taxonomy,
\* another string or no category, with any sub-fields
AnyAnswers ==
    {Missing}
    \cup {Classification(cat, f[1], f[2], f[3]) :
            cat \in Categories \cup {"voicemail", Undefined}, f \in AnswerSubFields}

AnyResponses(calls) ==
    {Response("failed", None), Response("unparseable", None), Response("ok", None)}
    \cup {AnsweredResponse(calls, answer) : answer \in [1..Len(calls) -> AnyAnswers]}

InitOverride ==
    /\ \E p \in OverrideProfiles :
          batch = <<BatchCall(CallIds[1], CreatedAtOf(1), p[1], p[2], p[3], p[4])>>
    /\ response = NoResponse
    /\ preOverride = <<>>
    /\ step = "requested"
    /\ rawCalls = <<>>
    /\ IdleClassify
    /\ IdleStore
    /\ IdleRun
    /\ IdleReport
    /\ IdleRest

AnswerArrives == BatchResponseFrom(AnyResponses(batch))

NextOverride == AnswerArrives

SpecOverride == InitOverride /\ [][NextOverride]_vars

\* C14: every classification the pipeline writes to the store has a
\* category of the taxonomy, whatever the model returned.
C14_CategoryInTaxonomy ==
    step = "saved" =>
        \A k \in 1..Len(batch) : StoredOf(k).category \in Categories

\* C15: every classification written to the store keeps the sub-field
\* constraint: hangupType only with hangup, transferReason only with
\* transferred or booking-transferred, spamType only with spam.
C15_SubFieldConstraint ==
    step = "saved" =>
        \A k \in 1..Len(batch) :
            /\ StoredOf(k).hangupType # Null => StoredOf(k).category = "hangup"
            /\ StoredOf(k).transferReason # Null
                  => StoredOf(k).category \in {"transferred", "booking-transferred"}
            /\ StoredOf(k).spamType # Null => StoredOf(k).category = "spam"

\* the call's duration in whole seconds, rounded to nearest, 0 without both
\* timestamps
RoundedSeconds(c) ==
    IF c.startedAt = None \/ c.endedAt = None THEN 0
    ELSE CHOOSE n \in 0..400 :
            /\ 1000 * n - 500 <= c.endedAt[1] - c.startedAt[1]
            /\ c.endedAt[1] - c.startedAt[1] < 1000 * n + 500

\* the k-th classification after Override A: booking-completed with null
\* sub-fields for a booked call that the model did not call so
AfterOverrideA(k) ==
    IF callMetadata(batch[k]).appointmentBooked /\ preOverride[k].category # "booking-completed"
      THEN Classification("booking-completed", Null, Null, Null)
      ELSE preOverride[k]

\* the table of Override B on classification cl of call c
StatedOverrideB(c, cl) ==
    IF cl.category # "unknown" THEN cl
    ELSE IF c.endedReason = "assistant-forwarded-call"
      THEN Classification("transferred", Null, "other", Null)
    ELSE IF c.endedReason \in {"customer-ended-call", "silence-timed-out"}
           /\ RoundedSeconds(c) < 10
      THEN Classification("spam", Null, Null, "short-call")
    ELSE IF c.endedReason \in {"customer-ended-call", "silence-timed-out"}
           /\ RoundedSeconds(c) < 30
      THEN Classification("hangup", "low-value", Null, Null)
    ELSE IF c.endedReason \in {"customer-ended-call", "silence-timed-out"}
      THEN Classification("hangup", "moderate", Null, Null)
    ELSE cl

\* C20: for a response that parses, the classification returned for a call
\* is what the table of Override B makes of the classification after
\* Override A: unchanged unless its category is unknown; transferred/other
\* for a forwarded call; spam/short-call under 10 s, hangup/low-value under
\* 30 s, hangup/moderate from 30 s for a customer-ended or silence-timed-out
\* call; unknown for any other ended reason.
C20_OverrideBTable ==
    (step = "saved" /\ response.kind = "ok") =>
        \A k \in 1..Len(batch) :
            LET want == StatedOverrideB(batch[k], AfterOverrideA(k))
                got == enrichments[k].classification
            IN  /\ got.category = want.category
                /\ got.hangupType = OrNull(want.hangupType)
                /\ got.transferReason = OrNull(want.transferReason)
                /\ got.spamType = OrNull(want.spamType)

\* an unanswered customer-ended call of 10 s (9.5 s rounded) becomes
\* hangup/low-value
C20_Witness ==
    /\ step = "saved"
    /\ response.kind = "ok"
    /\ preOverride[1].category = "unknown"
    /\ batch[1].endedReason = "customer-ended-call"
    /\ batch[1].endedAt = Some(9500)
    /\ enrichments[1].classification.category = "hangup"
    /\ enrichments[1].classification.hangupType = "low-value"

(***************************************************************************)
(* Duration statistics of the reports: percentile and computeDurationStats *)
(* (report-day-over-day.js and report-intraday.js hold the same code).     *)
(* Durations are whole seconds.                                            *)
(***************************************************************************)

\* the number of elements of sorted that a - b <= 0 keeps before v
RECURSIVE insertAt(_, _)
insertAt(sorted, v) ==
    IF sorted = <<>> \/ v < Head(sorted) THEN 0 ELSE 1 + insertAt(Tail(sorted), v)

\* Array.prototype.sort((a, b) => a - b): ascending numeric order
RECURSIVE sortAscending(_)
sortAscending(arr) ==
    IF arr = <<>> THEN <<>>
    ELSE LET rest == sortAscending(Tail(arr))
             k == insertAt(rest, Head(arr))
         IN SubSeq(rest, 1, k) \o <<Head(arr)>> \o SubSeq(rest, k + 1, Len(rest))

\* Math.max, Math.min
MathMax(a, b) == IF a >= b THEN a ELSE b

MathMin(a, b) == IF a <= b THEN a ELSE b

\* the rank without the - 1: the element after the one the code returns
percentileRankOneBased(p, n) == CeilDiv(p * n, 100)

\* Math.ceil((pct / 100) * n) - 1
percentileRank(p, n) == CeilDiv(p * n, 100) - 1

\* percentile(values, pct); sequences are 1-based, the code's arrays 0-based
percentile(vals, p) ==
    IF Len(vals) = 0 THEN 0
    ELSE LET sorted == sortAscending(vals)
             rank == percentileRank(p, Len(sorted))
         IN sorted[MathMax(0, MathMin(rank, Len(sorted) - 1)) + 1]

\* what the caller's array holds after percentile: sort acts on the copy
\* [...values], the argument is left as it was
valuesAfterPercentile(vals) == vals

RECURSIVE reduceSum(_)
reduceSum(vals) == IF vals = <<>> THEN 0 ELSE Head(vals) + reduceSum(Tail(vals))

\* Math.round(a / b) for a >= 0, b > 0
roundDiv(a, b) == (2 * a + b) \div (2 * b)

\* computeDurationStats(values)
computeDurationStats(vals) ==
    IF Len(vals) = 0 THEN [avg |-> 0, median |-> 0, p90 |-> 0]
    ELSE [avg |-> roundDiv(reduceSum(vals), Len(vals)),
          median |-> percentile(vals, 50),
          p90 |-> percentile(vals, 90)]

(***************************************************************************)
(* SpecStats: one list of durations, one call of percentile or of          *)
(* computeDurationStats on it.                                             *)
(***************************************************************************)

\* the longest list of durations
MaxValues == 5

DurationValues == {5, 10, 15, 20, 100}

DurationLists == UNION {[1..n -> DurationValues] : n \in 0..MaxValues}

\* pct as the reports pass it (50, 90) and the ends of the range and beyond
Percents == {0, 50, 90, 100, 150}

InitStats ==
    /\ values \in DurationLists
    /\ pct \in Percents
    /\ stats = None
    /\ rawCalls = <<>>
    /\ IdleClassify
    /\ IdleStore
    /\ IdleBatch
    /\ IdleRun
    /\ IdleReport
    /\ IdleRollup
    /\ IdlePeriod
    /\ IdleSchedule
    /\ IdleDerive
    /\ IdleLoop

Percentile ==
    /\ stats = None
    /\ stats' = Some([fn |-> "percentile", input |-> values, pct |-> pct,
                      result |-> percentile(values, pct)])
    /\ values' = valuesAfterPercentile(values)
    /\ UNCHANGED <<derived, loop, pct, rollupVars, periodMetrics, scheduleVars, classifyVars, rawCalls,
                   storeVars, batchVars, runVars, reportVars>>

ComputeDurationStats ==
    /\ stats = None
    /\ stats' = Some([fn |-> "computeDurationStats", input |-> values, pct |-> pct,
                      result |-> computeDurationStats(values)])
    /\ values' = valuesAfterPercentile(valuesAfterPercentile(values))
    /\ UNCHANGED <<derived, loop, pct, rollupVars, periodMetrics, scheduleVars, classifyVars, rawCalls,
                   storeVars, batchVars, runVars, reportVars>>

NextStats == Percentile \/ ComputeDurationStats

SpecStats == InitStats /\ [][NextStats]_vars

\* how many elements of vals are below v, and how many are v or below
CountBelow(vals, v) == Cardinality({j \in 1..Len(vals) : vals[j] < v})

CountUpTo(vals, v) == Cardinality({j \in 1..Len(vals) : vals[j] <= v})

\* the element at 0-based index k of the ascending order of vals
ElementAt(vals, k) ==
    CHOOSE v \in {vals[j] : j \in 1..Len(vals)} :
        CountBelow(vals, v) <= k /\ k < CountUpTo(vals, v)

\* ceil(p / 100 * n) - 1 clamped to [0, n - 1]
StatedIndex(p, n) ==
    LET c == CHOOSE m \in 0..(2 * n + 1) : 100 * m >= p * n /\ 100 * (m - 1) < p * n
    IN IF c - 1 < 0 THEN 0 ELSE IF c - 1 > n - 1 THEN n - 1 ELSE c - 1

\* C16: percentile(values, p) is 0 for the empty list and otherwise the
\* element at index ceil(p/100 * n) - 1, clamped to [0, n-1], of the
\* ascending order of the n values; for [5,10,15,20,100] p50 = 15, p90 = 100
\* and p100 = 100; computeDurationStats of the empty list is avg = median =
\* p90 = 0; the list passed in is left in its order.
C16_Percentile ==
    stats # None =>
        LET s == stats[1]
            n == Len(s.input)
        IN /\ values = s.input
           /\ s.fn = "percentile" =>
                /\ n = 0 => s.result = 0
                /\ n > 0 => s.result = ElementAt(s.input, StatedIndex(s.pct, n))
                /\ s.input = <<5, 10, 15, 20, 100>> =>
                     /\ s.pct = 50 => s.result = 15
                     /\ s.pct = 90 => s.result = 100
                     /\ s.pct = 100 => s.result = 100
           /\ s.fn = "computeDurationStats" =>
                /\ n = 0 => s.result = [avg |-> 0, median |-> 0, p90 |-> 0]
                /\ n > 0 => /\ s.result.median = ElementAt(s.input, StatedIndex(50, n))
                            /\ s.result.p90 = ElementAt(s.input, StatedIndex(90, n))

\* the 90th percentile of an unsorted list of five durations has been taken
C16_Witness ==
    /\ stats # None
    /\ stats[1].fn = "percentile"
    /\ stats[1].input = <<100, 5, 20, 10, 15>>
    /\ stats[1].pct = 90
    /\ stats[1].result = 100
    /\ values = <<100, 5, 20, 10, 15>>
(***************************************************************************)
(* The day-over-day report's windows (generateDayOverDayReport,            *)
(* calculateDayOfWeekAverages, buildDODExecutiveSummary).  A date is a day *)
(* number: day 0 is a Sunday, a week is seven days and a month thirty, so  *)
(* getDay is d % 7, getWeek d \div 7 and date.slice(0, 7) d \div 30.  The  *)
(* report runs without --date: todayRow is the last row.                   *)
(***************************************************************************)

getDay(d) == d % 7

weekKeyOf(d) == d \div 7

monthKeyOf(d) == d \div 30

\* Math.round((num / den) * 100) guarded by den > 0, as computeMetrics and
\* every window of the report write it
rateOf(num, den) == IF den > 0 THEN roundDiv(100 * num, den) ELSE 0

\* the row generateDayOverDayReport pushes for one raw file, from the counts
\* and rates computeMetrics returns for it
DailyRow(d, total, routed, attempted, spam) ==
    [date |-> d, weekKey |-> weekKeyOf(d), dayOfWeek |-> getDay(d),
     totalCalls |-> total, routedCalls |-> routed, transferAttempted |-> attempted,
     spamCalls |-> spam,
     routingRate |-> rateOf(routed, total),
     transferAttemptRate |-> rateOf(attempted, total),
     spamRate |-> rateOf(spam, total)]

\* rows.reduce((acc, r) => acc + r[key], 0)
RECURSIVE sum(_, _)
sum(rows, key) == IF rows = <<>> THEN 0 ELSE Head(rows)[key] + sum(Tail(rows), key)

\* rows.filter(r => r[key] === v)
RECURSIVE filterKey(_, _, _)
filterKey(rows, key, v) ==
    IF rows = <<>> THEN <<>>
    ELSE (IF Head(rows)[key] = v THEN <<Head(rows)>> ELSE <<>>) \o filterKey(Tail(rows), key, v)

\* rows.filter(r => r.weekKey !== currentWeek && r.dayOfWeek === dow)
RECURSIVE priorWeekdayRows(_, _, _)
priorWeekdayRows(rows, currentWeek, dow) ==
    IF rows = <<>> THEN <<>>
    ELSE (IF Head(rows).weekKey # currentWeek /\ Head(rows).dayOfWeek = dow
          THEN <<Head(rows)>> ELSE <<>>) \o priorWeekdayRows(Tail(rows), currentWeek, dow)

\* rows.slice(-k)
sliceLast(rows, k) == SubSeq(rows, MathMax(1, Len(rows) - k + 1), Len(rows))

\* rows.slice(-a, -b) for a > b > 0
sliceBetween(rows, a, b) ==
    IF Len(rows) <= b THEN <<>> ELSE SubSeq(rows, MathMax(1, Len(rows) - a + 1), Len(rows) - b)

\* rate(rows, numeratorKey) of the Last 7 / Last 30 tables
rate(rows, numeratorKey) == rateOf(sum(rows, numeratorKey), sum(rows, "totalCalls"))

\* an entry of weeklyMap after the rates are recalculated
weeklyAgg(rows) ==
    [totalCalls |-> sum(rows, "totalCalls"),
     routedCalls |-> sum(rows, "routedCalls"),
     transferAttempted |-> sum(rows, "transferAttempted"),
     spamCalls |-> sum(rows, "spamCalls"),
     days |-> Len(rows),
     routingRate |-> rateOf(sum(rows, "routedCalls"), sum(rows, "totalCalls")),
     transferAttemptRate |-> rateOf(sum(rows, "transferAttempted"), sum(rows, "totalCalls")),
     spamRate |-> rateOf(sum(rows, "spamCalls"), sum(rows, "totalCalls"))]

\* an entry of calculateDayOfWeekAverages: Math.round of the mean of the
\* rows' own values, the daily rates among them
dayOfWeekAverage(rows) ==
    [totalCalls |-> roundDiv(sum(rows, "totalCalls"), Len(rows)),
     routingRate |-> roundDiv(sum(rows, "routingRate"), Len(rows)),
     transferAttemptRate |-> roundDiv(sum(rows, "transferAttemptRate"), Len(rows)),
     spamRate |-> roundDiv(sum(rows, "spamRate"), Len(rows)),
     count |-> Len(rows)]

\* calculateDayOfWeekAverages(dailyRows, currentWeek): per weekday, the last
\* four rows outside the current week
calculateDayOfWeekAverages(rows, currentWeek) ==
    LET days == {dow \in 0..6 : priorWeekdayRows(rows, currentWeek, dow) # <<>>}
    IN [dow \in days |-> dayOfWeekAverage(sliceLast(priorWeekdayRows(rows, currentWeek, dow), 4))]

\* the two-window tables: shown only when both windows hold rows
windowPair(last, prior) ==
    IF Len(last) > 0 /\ Len(prior) > 0
    THEN Some([last |-> [routingRate |-> rate(last, "routedCalls"),
                         transferAttemptRate |-> rate(last, "transferAttempted"),
                         spamRate |-> rate(last, "spamCalls")],
               prior |-> [routingRate |-> rate(prior, "routedCalls"),
                          transferAttemptRate |-> rate(prior, "transferAttempted"),
                          spamRate |-> rate(prior, "spamCalls")]])
    ELSE None

\* the window figures of the report generateDayOverDayReport writes
generateDayOverDayReport(rows) ==
    LET weeks == {rows[j].weekKey : j \in 1..Len(rows)}
        months == {monthKeyOf(rows[j].date) : j \in 1..Len(rows)}
        currentWeek == CHOOSE w \in weeks : \A v \in weeks : v <= w
        todayRow == rows[Len(rows)]
        weekRows == filterKey(rows, "weekKey", todayRow.weekKey)
        monthRows(m) == SelectSeq(rows, LAMBDA r : monthKeyOf(r.date) = m)
    IN [weekly |-> [w \in weeks |-> weeklyAgg(filterKey(rows, "weekKey", w))],
        currentWeek |-> currentWeek,
        dayOfWeekAverages |-> calculateDayOfWeekAverages(rows, currentWeek),
        wtdRoutingRate |-> rateOf(sum(weekRows, "routedCalls"), sum(weekRows, "totalCalls")),
        mtdRoutingRate |-> rateOf(sum(monthRows(monthKeyOf(todayRow.date)), "routedCalls"),
                                  sum(monthRows(monthKeyOf(todayRow.date)), "totalCalls")),
        monthly |-> [m \in months |-> rateOf(sum(monthRows(m), "routedCalls"),
                                             sum(monthRows(m), "totalCalls"))],
        last7 |-> windowPair(sliceLast(rows, 7), sliceBetween(rows, 14, 7)),
        last30 |-> windowPair(sliceLast(rows, 30), sliceBetween(rows, 60, 30))]

(***************************************************************************)
(* SpecRollup: raw files of the Mondays, Tuesdays and Wednesdays of        *)
(* consecutive weeks, one report over them.                                *)
(***************************************************************************)

\* the most raw files (days) the report reads
MaxDays == 11

\* the date of the j-th raw file in the sorted directory listing
DateOfFile(j) == 7 * ((j - 1) \div 3) + 1 + ((j - 1) % 3)

\* the counts computeMetrics returns for a day: one call, routed; or three
\* calls, one transfer attempted, none routed, one spam
DayShapes == {<<1, 1, 1, 0>>, <<3, 0, 1, 1>>}

DailyRowsOf(shapes) ==
    [j \in 1..Len(shapes) |->
        DailyRow(DateOfFile(j), shapes[j][1], shapes[j][2], shapes[j][3], shapes[j][4])]

InitRollup ==
    /\ \E n \in 1..MaxDays : \E shapes \in [1..n -> DayShapes] :
           dailyRows = DailyRowsOf(shapes)
    /\ dodReport = None
    /\ rawCalls = <<>>
    /\ IdleClassify
    /\ IdleStore
    /\ IdleBatch
    /\ IdleRun
    /\ IdleReport
    /\ IdleStats
    /\ IdlePeriod
    /\ IdleSchedule
    /\ IdleDerive
    /\ IdleLoop

GenerateDayOverDayReport ==
    /\ dodReport = None
    /\ dodReport' = Some(generateDayOverDayReport(dailyRows))
    /\ UNCHANGED <<derived, loop, dailyRows, statsVars, periodMetrics, scheduleVars, classifyVars, rawCalls,
                   storeVars, batchVars, runVars, reportVars>>

NextRollup == GenerateDayOverDayReport

SpecRollup == InitRollup /\ [][NextRollup]_vars

\* the rows of dailyRows at the positions in idx, in order
RowsAt(idx) == [j \in 1..Cardinality(idx) |->
                  dailyRows[CHOOSE k \in idx : Cardinality({m \in idx : m < k}) = j - 1]]

\* round(100 * sum of the numerator / sum of totalCalls) over the rows at idx
StatedRate(idx, numeratorKey) ==
    LET num == sum(RowsAt(idx), numeratorKey)
        den == sum(RowsAt(idx), "totalCalls")
    IN IF den = 0 THEN 0
       ELSE CHOOSE r \in 0..100 : 2 * den * r <= 200 * num + den /\ 200 * num + den < 2 * den * (r + 1)

\* the positions of the same-weekday baseline of weekday dow: the last four
\* rows of that weekday before the current week
BaselineDays(dow) ==
    LET n == Len(dailyRows)
        cur == dailyRows[n].weekKey
        prior == {j \in 1..n : dailyRows[j].dayOfWeek = dow /\ dailyRows[j].weekKey # cur}
    IN {j \in prior : Cardinality({k \in prior : k > j}) < 4}

RateKeys == [routingRate |-> "routedCalls", transferAttemptRate |-> "transferAttempted",
             spamRate |-> "spamCalls"]

\* the week, week-to-date, month, last 7 / prior 7 and last 30 / prior 30
\* rates come from the window's summed counts
WindowRatesFromCounts ==
    LET r == dodReport[1]
        n == Len(dailyRows)
        last(k) == {j \in 1..n : j > n - k}
        prior(k) == {j \in 1..n : j > n - 2 * k /\ j <= n - k}
    IN /\ \A w \in DOMAIN r.weekly : \A key \in DOMAIN RateKeys :
              r.weekly[w][key] = StatedRate({j \in 1..n : dailyRows[j].weekKey = w}, RateKeys[key])
       /\ r.wtdRoutingRate =
              StatedRate({j \in 1..n : dailyRows[j].weekKey = dailyRows[n].weekKey}, "routedCalls")
       /\ \A m \in DOMAIN r.monthly :
              r.monthly[m] = StatedRate({j \in 1..n : monthKeyOf(dailyRows[j].date) = m}, "routedCalls")
       /\ r.mtdRoutingRate = r.monthly[monthKeyOf(dailyRows[n].date)]
       /\ \A k \in {7, 30} :
              LET pair == IF k = 7 THEN r.last7 ELSE r.last30
              IN /\ pair # None <=> (last(k) # {} /\ prior(k) # {})
                 /\ pair # None => \A key \in DOMAIN RateKeys :
                        /\ pair[1].last[key] = StatedRate(last(k), RateKeys[key])
                        /\ pair[1].prior[key] = StatedRate(prior(k), RateKeys[key])

\* C17: every rate the day-over-day report shows for a window of several
\* days (week, last 7 / prior 7, last 30 / prior 30, month, same-weekday
\* 4-week baseline) is round(100 * summed numerator / summed denominator)
\* over the window's days, never the average of the daily rates.
C17_WindowRates ==
    dodReport # None =>
        /\ WindowRatesFromCounts
        /\ \A dow \in DOMAIN dodReport[1].dayOfWeekAverages : \A key \in DOMAIN RateKeys :
               dodReport[1].dayOfWeekAverages[dow][key] = StatedRate(BaselineDays(dow), RateKeys[key])

\* the windows other than the same-weekday baseline take their rates from
\* the summed counts
OtherWindowRates == dodReport # None => WindowRatesFromCounts

(***************************************************************************)
(* The metrics of the intraday report (generateIntradayReport) and of the  *)
(* weekly report (processAndEnrichCalls, calculateMetrics).  Both scripts  *)
(* carry their own copies of getCallDuration, getTransferIntent and        *)
(* hasCustomerSpeech, equal to the day-over-day report's; their            *)
(* isSpamLikelyShortNoSpeech leaves out a duration of 0.                   *)
(***************************************************************************)

\* isSpamLikelyShortNoSpeech(call, durationSeconds) of the two scripts
isSpamLikelyShortNoSpeechPositive(c, durationMs) ==
    durationMs > 0 /\ durationMs <= 10 * 1000 /\ ~hasCustomerSpeech(c)

\* the flags both scripts set on a call, each from the call alone
routingFlags(c) ==
    LET duration == getCallDuration(c)
        transferAttempted == Truthy(getTransferIntent(c))
        routed == c.endedReason = "assistant-forwarded-call"
    IN  [callId |-> c.id,
         routed |-> routed,
         transferAttempted |-> transferAttempted,
         notRouted |-> ~transferAttempted /\ c.endedReason \in {"customer-ended-call", "assistant-ended-call"},
         hangupBeforeRoute |-> transferAttempted /\ ~routed /\ c.endedReason = "customer-ended-call",
         spamLikely |-> isSpamLikelyShortNoSpeechPositive(c, duration)]

\* the category the intraday report gives a call: the stored one, or the
\* rule-based classifier's ('Unknown' when it asks for analysis)
intradayCategory(c, enrichmentMap) ==
    IF c.id \in DOMAIN enrichmentMap
      THEN LET cl == enrichmentMap[c.id].classification
           IN IF Truthy(cl.category) THEN cl.category ELSE "unknown"
      ELSE IF classifyCall(c).needs_analysis THEN "Unknown" ELSE classifyCall(c).category

\* the category the weekly report gives a call
weeklyCategory(c, enrichmentMap) ==
    IF c.id \in DOMAIN enrichmentMap
      THEN LET cl == enrichmentMap[c.id].classification
           IN ToLowerCase(IF Truthy(cl.category) THEN cl.category ELSE "unknown")
      ELSE "unknown"

\* the counts both scripts take with filter(...).length; spam[k] tells
\* whether call k counts as spam.  Neither script compares the counts with
\* the total or warns.
countFlags(report, flags, spam) ==
    LET n == Len(flags)
        count(field) == Cardinality({k \in 1..n : flags[k][field]})
    IN  [report |-> report,
         failed |-> FALSE,
         totalCalls |-> n,
         spamCalls |-> Cardinality({k \in 1..n : spam[k]}),
         spamLikelyCalls |-> count("spamLikely"),
         transferAttempted |-> count("transferAttempted"),
         routedCalls |-> count("routed"),
         notRoutedCalls |-> count("notRouted"),
         hangupBeforeRoute |-> count("hangupBeforeRoute"),
         warned |-> FALSE]

\* a report that ended with the classifier's TypeError
failedReport(report) ==
    [report |-> report, failed |-> TRUE, totalCalls |-> 0, spamCalls |-> 0,
     spamLikelyCalls |-> 0, transferAttempted |-> 0, routedCalls |-> 0,
     notRoutedCalls |-> 0, hangupBeforeRoute |-> 0, warned |-> FALSE]

\* steps 4 and 5 of generateIntradayReport
intradayMetrics(calls, enrichmentMap) ==
    IF \E k \in 1..Len(calls) :
          calls[k].id \notin DOMAIN enrichmentMap /\ classifyCall(calls[k]).threw
      THEN failedReport("intraday")
      ELSE countFlags("intraday",
                      [k \in 1..Len(calls) |-> routingFlags(calls[k])],
                      [k \in 1..Len(calls) |->
                          ToLowerCase(intradayCategory(calls[k], enrichmentMap)) = "spam"])

\* calculateMetrics(processAndEnrichCalls(calls, enrichmentMap))
calculateMetrics(calls, enrichmentMap) ==
    countFlags("weekly",
               [k \in 1..Len(calls) |-> routingFlags(calls[k])],
               [k \in 1..Len(calls) |-> weeklyCategory(calls[k], enrichmentMap) = "spam"])

(***************************************************************************)
(* SpecPeriod: the calls and the store of SpecReport, and the metrics of   *)
(* the intraday or of the weekly report over them.                         *)
(***************************************************************************)

IntradayMetrics ==
    /\ periodMetrics = None
    /\ periodMetrics' = Some(intradayMetrics(rawCalls, loadEnrichments(files)))
    /\ UNCHANGED <<derived, loop, statsVars, rollupVars, scheduleVars, classifyVars, rawCalls, storeVars,
                   batchVars, runVars, reportVars>>

WeeklyMetrics ==
    /\ periodMetrics = None
    /\ periodMetrics' = Some(calculateMetrics(rawCalls, loadEnrichments(files)))
    /\ UNCHANGED <<derived, loop, statsVars, rollupVars, scheduleVars, classifyVars, rawCalls, storeVars,
                   batchVars, runVars, reportVars>>

NextPeriod == IntradayMetrics \/ WeeklyMetrics

SpecPeriod == InitReport /\ [][NextPeriod]_vars

\* the five routing counts of a report's metrics, added
FiveCounts(m) ==
    m.routedCalls + m.notRoutedCalls + m.hangupBeforeRoute + m.spamCalls + m.spamLikelyCalls

\* C18: in the metrics of the intraday and of the weekly report, total calls
\* equals routed + not-routed + hangup-before-route + spam + spam-likely for
\* any set of calls, and a discrepancy is reported as a warning.
C18_FiveCountsPartition ==
    (periodMetrics # None /\ ~periodMetrics[1].failed) =>
        /\ FiveCounts(periodMetrics[1]) = periodMetrics[1].totalCalls
        /\ FiveCounts(periodMetrics[1]) # periodMetrics[1].totalCalls => periodMetrics[1].warned
(***************************************************************************)
(* The scheduled day-over-day run (scheduled-report.js: runCommand,        *)
(* findLatestReport, validateReportDate, runDODReport).  A string is the   *)
(* sequence of its parts: a date 'YYYY-MM-DD' is <<YYYY, "-", MM, "-",     *)
(* DD>>, so that split, the MMDDYYYY form and includes are computed.       *)
(***************************************************************************)

\* 'YYYY-MM-DD'
DateString(year, month, day) == <<year, "-", month, "-", day>>

\* targetDate.split('-')
splitDate(date) == SelectSeq(date, LAMBDA part : part # "-")

\* `${month}${day}${year}` of [year, month, day]
formatMMDDYYYY(parts) == <<parts[2], parts[3], parts[1]>>

\* text.includes(part)
includes(text, part) ==
    \E k \in 0..(Len(text) - Len(part)) : SubSeq(text, k + 1, k + Len(part)) = part

\* a file of the reports directory: the script that wrote it, the dates of
\* its first and last row and the time it was written
ReportFile(kind, start, end, timestamp) ==
    [kind |-> kind, start |-> start, end |-> end, timestamp |-> timestamp]

\* format(now, 'yyyyMMdd_HHmmss') of the times of the model, in order
timestampText(timestamp) ==
    <<"20260210_070000", "20260211_070000", "20260212_070000">>[timestamp]

\* path.join(reportsDir, fileName): the day-over-day report writes
\* EngAgent_DODReport_Start{MMDDYYYY}_End{MMDDYYYY}_{timestamp}.md, the
\* intraday report intraday_report_{YYYY-MM-DD}_{timestamp}.md
reportPath(f) ==
    IF f.kind = "EngAgent_DODReport"
      THEN <<"clients/lf01/data/reports/", "EngAgent_DODReport", "_", "Start">>
               \o formatMMDDYYYY(splitDate(f.start)) \o <<"_", "End">>
               \o formatMMDDYYYY(splitDate(f.end)) \o <<"_", timestampText(f.timestamp), ".md">>
      ELSE <<"clients/lf01/data/reports/", "intraday_report", "_">> \o f.end
               \o <<"_", timestampText(f.timestamp), ".md">>

\* findLatestReport(reportsDir, 'EngAgent_DODReport'): the file of that
\* name with the greatest timestamp, None (null) when there is none
findLatestReport(dir) ==
    LET matching == {f \in dir : includes(reportPath(f), <<"EngAgent_DODReport">>)}
    IN IF matching = {} THEN None
       ELSE Some(CHOOSE f \in matching : \A g \in matching : g.timestamp <= f.timestamp)

\* validateReportDate without its test: every report passes
validateReportDateAlways(file, date) == TRUE

\* validateReportDate(reportFile, targetDate): TRUE when it returns, FALSE
\* when it throws
validateReportDate(file, date) ==
    \/ includes(reportPath(file), <<"End">> \o formatMMDDYYYY(splitDate(date)))
    \/ includes(reportPath(file), date)

(***************************************************************************)
(* SpecSchedule: one run of runDODReport for a target date, over a reports *)
(* directory that holds earlier reports.  A child process ends with exit   *)
(* code 0 or not; the report script writes its file or, when it fails      *)
(* inside generateDayOverDayReport().catch(console.error), ends with exit  *)
(* code 0 and no file.                                                     *)
(***************************************************************************)

\* the most reports the directory holds when the run starts
MaxReports == 2

TargetDates == {DateString("2026", "02", "10"), DateString("2026", "02", "11"),
                DateString("2026", "11", "02")}

FirstRowDate == DateString("2026", "02", "09")

\* the reports of earlier runs
EarlierReports ==
    {ReportFile(kind, FirstRowDate, end, ts) :
        kind \in {"EngAgent_DODReport", "intraday_report"}, end \in TargetDates, ts \in 1..2}

\* the clock of this run, later than every earlier report
Now == 3

StepOrder == <<"fetch", "enrich", "report", "email">>

StepResult(name, ok) == [step |-> name, ok |-> ok]

InitSchedule ==
    /\ pc = "fetch"
    /\ targetDate \in TargetDates
    /\ reportsDir \in {dir \in SUBSET EarlierReports : Cardinality(dir) <= MaxReports}
    /\ trace = <<>>
    /\ sent = None
    /\ rawCalls = <<>>
    /\ IdleClassify
    /\ IdleStore
    /\ IdleBatch
    /\ IdleRun
    /\ IdleReport
    /\ IdleStats
    /\ IdleDerive
    /\ IdleLoop
    /\ IdleRollup
    /\ IdlePeriod

\* Step 1: runCommand('Fetching Vapi data', ...); throws when it fails
FetchStep ==
    /\ pc = "fetch"
    /\ \E ok \in BOOLEAN :
          /\ trace' = Append(trace, StepResult("fetch", ok))
          /\ pc' = IF ok THEN "enrich" ELSE "failed"
    /\ UNCHANGED <<derived, loop, targetDate, reportsDir, sent, statsVars, rollupVars, periodMetrics,
                   classifyVars, rawCalls, storeVars, batchVars, runVars, reportVars>>

\* Step 2: runCommand('Enriching call data', ...)
EnrichStep ==
    /\ pc = "enrich"
    /\ \E ok \in BOOLEAN :
          /\ trace' = Append(trace, StepResult("enrich", ok))
          /\ pc' = IF ok THEN "report" ELSE "failed"
    /\ UNCHANGED <<derived, loop, targetDate, reportsDir, sent, statsVars, rollupVars, periodMetrics,
                   classifyVars, rawCalls, storeVars, batchVars, runVars, reportVars>>

\* Step 3: runCommand('Generating DOD report', ... --date=targetDate)
ReportStep ==
    /\ pc = "report"
    /\ \E ok \in BOOLEAN, written \in BOOLEAN :
          /\ written => ok
          /\ trace' = Append(trace, StepResult("report", ok))
          /\ reportsDir' = IF written
                             THEN reportsDir \cup
                                    {ReportFile("EngAgent_DODReport", FirstRowDate, targetDate, Now)}
                             ELSE reportsDir
          /\ pc' = IF ok THEN "email" ELSE "failed"
    /\ UNCHANGED <<derived, loop, targetDate, sent, statsVars, rollupVars, periodMetrics,
                   classifyVars, rawCalls, storeVars, batchVars, runVars, reportVars>>

\* Step 4: find the report, validate its date, send it; sendReport can throw
EmailStep ==
    /\ pc = "email"
    /\ LET reportFile == findLatestReport(reportsDir)
       IN IF reportFile = None \/ ~validateReportDate(reportFile[1], targetDate)
            THEN /\ pc' = "failed"
                 /\ UNCHANGED <<trace, sent>>
            ELSE \E ok \in BOOLEAN :
                    /\ trace' = Append(trace, StepResult("email", ok))
                    /\ sent' = IF ok THEN reportFile ELSE None
                    /\ pc' = IF ok THEN "done" ELSE "failed"
    /\ UNCHANGED <<derived, loop, targetDate, reportsDir, statsVars, rollupVars, periodMetrics,
                   classifyVars, rawCalls, storeVars, batchVars, runVars, reportVars>>

NextSchedule == FetchStep \/ EnrichStep \/ ReportStep \/ EmailStep

SpecSchedule == InitSchedule /\ [][NextSchedule]_vars

\* the file's name shows the date as its first or last day (MMDDYYYY) or as
\* YYYY-MM-DD
NameCarries(f, date) ==
    LET d == [year |-> date[1], month |-> date[3], day |-> date[5]]
        shown(x) == x[1] = d.year /\ x[3] = d.month /\ x[5] = d.day
    IN shown(f.end) \/ (f.kind = "EngAgent_DODReport" /\ shown(f.start))

\* C19: a scheduled DOD run takes the steps fetch, enrich, report, email in
\* that order, each only after the one before reported success; a failed
\* step ends the run with no email; the email goes out only with a report
\* file whose name carries the requested target date.
C19_ScheduledRun ==
    /\ Len(trace) <= Len(StepOrder)
    /\ \A k \in 1..Len(trace) :
          /\ trace[k].step = StepOrder[k]
          /\ k > 1 => trace[k - 1].ok
    /\ (\E k \in 1..Len(trace) : ~trace[k].ok) => (sent = None /\ pc = "failed")
    /\ sent # None =>
          /\ Len(trace) = 4
          /\ \A k \in 1..4 : trace[k].ok
          /\ sent[1] \in reportsDir
          /\ NameCarries(sent[1], targetDate)

\* the report step ended with exit code 0 and wrote nothing, the directory
\* held an earlier report of the target date and one of another day, and the
\* earlier report of the target date was sent
C19_Witness ==
    /\ sent # None
    /\ sent[1].timestamp < Now
    /\ \E f \in reportsDir : f.kind = "EngAgent_DODReport" /\ f.end # targetDate
    /\ pc = "done"
(***************************************************************************)
(* A successful transfer and the booking signals (SpecClassify).           *)
(***************************************************************************)

\* the success evaluation says call_success yes and its outcome text
\* contains "transferred"
SuccessfulTransferEvaluation(c) ==
    /\ c.successEvaluation # None
    /\ c.successEvaluation[1].parses
    /\ c.successEvaluation[1].call_success = "yes"
    /\ c.successEvaluation[1].final_outcome # Undefined
    /\ Includes(ToLowerCase(c.successEvaluation[1].final_outcome), "transferred")

\* C21: a call whose success evaluation indicates success and whose outcome
\* text contains "transferred", with no structured 'Appointment Booked'
\* output of result true and no confirmation phrase, gets appointment_booked
\* = false from the feature extraction and no booking category from the
\* rule-based classifier.
C21_TransferNotBooking ==
    (/\ classification # None
     /\ ~classification[1].threw
     /\ SuccessfulTransferEvaluation(call)
     /\ ~appointmentBookedByName(call)
     /\ ~appointmentBookedByKey(call)
     /\ ~hasConfirmationPhrase(call)) =>
        /\ ~callMetadata(call).appointmentBooked
        /\ ~classification[1].needs_analysis =>
               classification[1].category \notin
                   {"booking-success", "booking-completed", "booking-abandoned", "booking-transferred"}
(***************************************************************************)
(* Customer speech and the spam-likely tag (SpecCall).                     *)
(***************************************************************************)

\* the text holds a token that is not whitespace
HasToken(t) == t \notin {Undefined, "", "   "}

\* a message of role customer or user holds a token
StatedCustomerSpeech(c) ==
    /\ c.messages # None
    /\ \E m \in SeqToSet(c.messages[1]) : m.role \in {"customer", "user"} /\ HasToken(m.message)

\* a message of role user holds a word character (letter, digit, underscore)
UserWordSpoken(c) ==
    /\ c.messages # None
    /\ \E m \in SeqToSet(c.messages[1]) : m.role = "user" /\ HasWord(m.message)

\* the call's only message is spoken by role customer
OnlyCustomerMessage(c) ==
    /\ c.messages # None
    /\ Len(c.messages[1]) = 1
    /\ c.messages[1][1].role = "customer"
    /\ HasToken(c.messages[1][1].message)

\* C22 (as stated): a call has customer speech when a message of role
\* customer or user holds a non-whitespace token; a call of at most 10 s with
\* such a message is not tagged spam-likely by the resolver.
C22_CustomerSpeech ==
    (metrics # None /\ StatedCustomerSpeech(call)) =>
        /\ ~processedCalls[1].spamLikely
        /\ processedCalls[1].routingStatus # "spam-likely"

\* C22 (amended): a call has customer speech exactly when a message of role
\* user holds a word character; a call of at most 10 s is given the
\* spam-likely signal exactly when it has no such message, so one whose only
\* message has role customer, or whose user text is punctuation only, is
\* tagged spam-likely unless an earlier routing rule takes it.
C22_UserSpeechOnly ==
    metrics # None =>
        /\ processedCalls[1].spamLikely <=>
               (getCallDuration(call) <= 10 * 1000 /\ ~UserWordSpoken(call))
        /\ UserWordSpoken(call) => processedCalls[1].routingStatus # "spam-likely"
        /\ (/\ getCallDuration(call) <= 10 * 1000
            /\ ~UserWordSpoken(call)
            /\ call.endedReason # "assistant-forwarded-call"
            /\ ~(Truthy(getTransferIntent(call)) /\ call.endedReason = "customer-ended-call"))
               => processedCalls[1].routingStatus = "spam-likely"

\* a call of 10 s whose only message has role customer was tagged spam-likely
C22_Witness ==
    /\ metrics # None
    /\ call.duration = Some(10)
    /\ OnlyCustomerMessage(call)
    /\ processedCalls[1].routingStatus = "spam-likely"

(***************************************************************************)
(* What the three readers derive from one call record (SpecFeatures): the  *)
(* transfer hint and the duration, as classifyCall (classify_call.js), the *)
(* callSummaries of enrichBatch (enrich.js) and processCalls               *)
(* (report-day-over-day.js) compute them.                                  *)
(***************************************************************************)
\* enrich.js lines 82-100: only the messages are read; every message with a
\* transfer tool whose arguments parse assigns
\* args.destination || args.intent || null, the loop has no break, and the
\* empty catch leaves the value as it was
summaryTransferDestination(c) ==
    LET ms == IF c.messages = None THEN <<>> ELSE c.messages[1]
        firstTool(ts) == Min({k \in 1..Len(ts) : ts[k].fn /\ ts[k].name \in TRANSFER_TOOL_NAMES})
        hasTool(ts) == \E k \in 1..Len(ts) : ts[k].fn /\ ts[k].name \in TRANSFER_TOOL_NAMES
        assigns == {k \in 1..Len(ms) :
                       /\ ms[k].toolCalls # None
                       /\ hasTool(ms[k].toolCalls[1])
                       /\ ms[k].toolCalls[1][firstTool(ms[k].toolCalls[1])].arguments.kind = "json"}
    IN  IF assigns = {} THEN Null
        ELSE LET last == CHOOSE k \in assigns : \A j \in assigns : j <= k
                 args == ms[last].toolCalls[1][firstTool(ms[last].toolCalls[1])].arguments
             IN  IF Truthy(args.destination) THEN args.destination
                 ELSE IF Truthy(args.intent) THEN args.intent
                 ELSE Null

\* <<startedAt, endedAt>> in milliseconds; the third has the end before the
\* start
FeatureTimestamps ==
    {<<None, None>>, <<Some(0), Some(4000)>>, <<Some(60000), Some(56000)>>, <<Some(0), None>>}

FeatureDurations == {None, Some(3)}

InitFeatures ==
    /\ \E d \in FeatureDurations, t \in FeatureTimestamps, ms \in MessageLogs, tc \in ToolCallLogs :
          call = CallRecord("c1", CreatedAtOf(1), d, t, "customer-ended-call", None, None, None,
                            "", ms, tc)
    /\ classification = None
    /\ rawCalls = <<>>
    /\ IdleStore
    /\ IdleBatch
    /\ IdleRun
    /\ IdleReport
    /\ IdleStats
    /\ IdleRollup
    /\ IdlePeriod
    /\ IdleSchedule
    /\ IdleDerive
    /\ IdleLoop

FeatureRest ==
    <<classifyVars, rawCalls, storeVars, batchVars, runVars, reportVars, statsVars,
      rollupVars, periodMetrics, scheduleVars, loop>>

\* classify_call.js lines 83-128
ClassifierHint ==
    /\ derived.classifierHint = None
    /\ derived' = [derived EXCEPT !.classifierHint = Some(transferDestination(call))]
    /\ UNCHANGED FeatureRest

\* enrich.js lines 82-100
SummaryHint ==
    /\ derived.summaryHint = None
    /\ derived' = [derived EXCEPT !.summaryHint = Some(summaryTransferDestination(call))]
    /\ UNCHANGED FeatureRest

\* report-day-over-day.js line 665
ResolverHint ==
    /\ derived.resolverHint = None
    /\ derived' = [derived EXCEPT !.resolverHint = Some(getTransferIntent(call))]
    /\ UNCHANGED FeatureRest

\* classify_call.js lines 38-45
ClassifierDuration ==
    /\ derived.classifierDuration = None
    /\ derived' = [derived EXCEPT !.classifierDuration = Some(classifyDurationMs(call))]
    /\ UNCHANGED FeatureRest

\* enrich.js lines 78-80
SummaryDuration ==
    /\ derived.summaryDuration = None
    /\ derived' = [derived EXCEPT !.summaryDuration = Some(enrichDuration(call))]
    /\ UNCHANGED FeatureRest

\* report-day-over-day.js line 664
ResolverDuration ==
    /\ derived.resolverDuration = None
    /\ derived' = [derived EXCEPT !.resolverDuration = Some(getCallDuration(call))]
    /\ UNCHANGED FeatureRest

NextFeatures ==
    \/ ClassifierHint
    \/ SummaryHint
    \/ ResolverHint
    \/ ClassifierDuration
    \/ SummaryDuration
    \/ ResolverDuration

SpecFeatures == InitFeatures /\ [][NextFeatures]_vars

\* the call holds a transfer-tool invocation whose arguments do not parse
UnparseableTransfer(c) ==
    LET bad(ts) == \E k \in 1..Len(ts) :
                      ts[k].fn /\ ts[k].name \in TRANSFER_TOOL_NAMES /\ ts[k].arguments.kind = "invalid"
    IN  \/ c.toolCalls # None /\ bad(c.toolCalls[1])
        \/ /\ c.messages # None
           /\ \E k \in 1..Len(c.messages[1]) :
                 c.messages[1][k].toolCalls # None /\ bad(c.messages[1][k].toolCalls[1])

\* the three hints, once derived
Hints == {derived.classifierHint, derived.summaryHint, derived.resolverHint} \ {None}

\* C23: for a call that holds a transfer-tool invocation whose arguments
\* cannot be parsed, each of the three readers (rule-based classifier,
\* feature extraction, routing-status resolver) derives a hint that is a
\* non-null string, so the call counts as a transfer attempt everywhere.
C23_UnparseableIsSentinel ==
    UnparseableTransfer(call) =>
        \A h \in Hints : h[1] # Null /\ Truthy(h[1]) /\ h[1] # Throw

\* the stated hint: the first transfer-tool invocation found, the top-level
\* log first and then message by message, and of it the first non-empty of
\* destination, intent, department, queue; null without a transfer tool
StatedHint(c) ==
    LET isTransfer(t) == t.fn /\ t.name \in TRANSFER_TOOL_NAMES
        firstOf(ts) == ts[Min({k \in 1..Len(ts) : isTransfer(ts[k])})]
        has(ts) == \E k \in 1..Len(ts) : isTransfer(ts[k])
        ms == IF c.messages = None THEN <<>> ELSE c.messages[1]
        withTool == {k \in 1..Len(ms) : ms[k].toolCalls # None /\ has(ms[k].toolCalls[1])}
    IN  IF c.toolCalls # None /\ has(c.toolCalls[1]) THEN intentOf(firstOf(c.toolCalls[1]).arguments)
        ELSE IF withTool # {} THEN intentOf(firstOf(ms[Min(withTool)].toolCalls[1]).arguments)
        ELSE Null

\* C24: for one call record whose transfer-tool arguments all parse, the
\* rule-based classifier, the feature extraction and the routing-status
\* resolver derive the same hint, the stated one; so a transfer tool that
\* carries only an intent counts as a transfer attempt in all three.
C24_SameHintEverywhere ==
    ~UnparseableTransfer(call) => \A h \in Hints : h[1] = StatedHint(call)

\* the durations, once derived (classifier and resolver in milliseconds,
\* summary in seconds)
Durations ==
    {derived.classifierDuration, derived.summaryDuration, derived.resolverDuration} \ {None}

\* C25: the duration a reader derives for a call is never negative, also
\* when endedAt precedes startedAt, and it is 0 when call.duration and the
\* timestamps are missing; so no call is below the classifier's 5 s spam
\* threshold or the resolver's 10 s spam-likely threshold because its
\* duration is negative.
C25_DurationNotNegative ==
    /\ \A d \in Durations : d[1] >= 0
    /\ (call.duration = None /\ (call.startedAt = None \/ call.endedAt = None))
          => \A d \in Durations : d[1] = 0

(***************************************************************************)
(* The not-routed tag against the report's definition of Not Routed        *)
(* (SpecCall).                                                             *)
(***************************************************************************)
\* C26: every call processCalls tags not-routed had no transfer attempt and
\* ended with customer-ended-call or assistant-ended-call, as the Key
\* Metrics Definitions of the report say of Not Routed.
C26_NotRoutedAsDefined ==
    (metrics # None /\ processedCalls[1].routingStatus = "not-routed")
        => /\ ~processedCalls[1].transferAttempted
           /\ call.endedReason \in {"customer-ended-call", "assistant-ended-call"}

MaxLoopCalls == 3

\* the loop index is counted up to MaxIterations and held there
MaxIterations == 5

\* a JavaScript number: an integer, NaN or Infinity
Num(n) == [kind |-> "number", n |-> n]

NaN == [kind |-> "NaN", n |-> 0]

Infinity == [kind |-> "Infinity", n |-> 0]

\* parseInt of the text after `=`
parseInt(text) ==
    CASE text = "0" -> Num(0)
      [] text = "1" -> Num(1)
      [] text = "2" -> Num(2)
      [] text = "2.5" -> Num(2)
      [] text = "-1" -> Num(-1)
      [] OTHER -> NaN

\* the --batch-size argument: absent, or the text after `=`
BatchSizeArgs == {None, Some("0"), Some("1"), Some("2"), Some("2.5"), Some("-1"), Some("many"), Some("")}

\* line 36: batchSizeArg ? parseInt(batchSizeArg.split('=')[1]) : 50
BATCH_SIZE(batchSizeArg) == IF batchSizeArg = None THEN Num(50) ELSE parseInt(batchSizeArg[1])

\* Math.ceil(n / size) for an integer n > 0
mathCeilOfQuotient(n, size) ==
    IF size.kind = "NaN" THEN NaN
    ELSE IF size.n = 0 THEN Infinity
    ELSE IF size.n > 0 THEN Num((n + size.n - 1) \div size.n)
    ELSE Num(0 - (n \div (0 - size.n)))

\* idx < total
lessThan(idx, total) ==
    CASE total.kind = "NaN" -> FALSE
      [] total.kind = "Infinity" -> TRUE
      [] OTHER -> idx < total.n

\* total - 1
minusOne(total) == IF total.kind = "number" THEN Num(total.n - 1) ELSE total

\* the positions of unenrichedCalls.slice(batchStart, batchEnd) (lines
\* 291-293), size a number
slicePositions(idx, size, n) ==
    LET batchStart == idx * size.n
        batchEnd == IF batchStart + size.n < n THEN batchStart + size.n ELSE n
    IN  {k \in 1..n : batchStart < k /\ k <= batchEnd}

InitLoop ==
    /\ \E a \in BatchSizeArgs, n \in 0..MaxLoopCalls :
          loop = [size |-> BATCH_SIZE(a), n |-> n, i |-> 0, totalBatches |-> Num(0),
                  at |-> "start", batch |-> {}, sent |-> [k \in 1..n |-> 0],
                  largest |-> 0, processedCount |-> 0, outcome |-> "none"]
    /\ rawCalls = <<>>
    /\ IdleClassify
    /\ IdleStore
    /\ IdleBatch
    /\ IdleRun
    /\ IdleReport
    /\ IdleStats
    /\ IdleRollup
    /\ IdlePeriod
    /\ IdleSchedule
    /\ IdleDerive

LoopRest ==
    <<classifyVars, rawCalls, storeVars, batchVars, runVars, reportVars, statsVars,
      rollupVars, periodMetrics, scheduleVars, derived>>

\* lines 283-288: nothing to enrich returns; otherwise totalBatches is
\* computed and the loop begins
LoopStart ==
    /\ loop # <<>>
    /\ loop.at = "start"
    /\ loop' = IF loop.n = 0 THEN [loop EXCEPT !.at = "done"]
               ELSE [loop EXCEPT !.at = "test",
                                 !.totalBatches = mathCeilOfQuotient(loop.n, loop.size)]
    /\ UNCHANGED LoopRest

\* line 290, i < totalBatches holds: lines 291-296 slice the batch and send
\* it to classifyCallsBatch
LoopRequest ==
    /\ loop # <<>>
    /\ loop.at = "test"
    /\ lessThan(loop.i, loop.totalBatches)
    /\ LET b == slicePositions(loop.i, loop.size, loop.n)
       IN  loop' = [loop EXCEPT !.at = "requested",
                                !.batch = b,
                                !.sent = [k \in 1..loop.n |->
                                             IF k \in b THEN loop.sent[k] + 1 ELSE loop.sent[k]],
                                !.largest = IF Cardinality(b) > loop.largest
                                              THEN Cardinality(b) ELSE loop.largest]
    /\ UNCHANGED LoopRest

\* line 290, i < totalBatches fails: lines 312-313
LoopExit ==
    /\ loop # <<>>
    /\ loop.at = "test"
    /\ ~lessThan(loop.i, loop.totalBatches)
    /\ loop' = [loop EXCEPT !.at = "done"]
    /\ UNCHANGED LoopRest

\* lines 296-309: classifyCallsBatch returns one enrichment per call of the
\* batch, whether the request succeeded or failed; they are saved and
\* counted, and the loop pauses unless this was the last batch
LoopBatchDone ==
    /\ loop # <<>>
    /\ loop.at = "requested"
    /\ \E o \in {"ok", "failed"} :
          loop' = [loop EXCEPT !.outcome = o,
                               !.processedCount = loop.processedCount + Cardinality(loop.batch),
                               !.at = IF lessThan(loop.i, minusOne(loop.totalBatches))
                                        THEN "delay" ELSE "test",
                               !.i = IF lessThan(loop.i, minusOne(loop.totalBatches)) THEN loop.i
                                     ELSE IF loop.i < MaxIterations THEN loop.i + 1 ELSE loop.i]
    /\ UNCHANGED LoopRest

\* line 307: the pause is over, i++
LoopDelayElapsed ==
    /\ loop # <<>>
    /\ loop.at = "delay"
    /\ loop' = [loop EXCEPT !.at = "test",
                            !.i = IF loop.i < MaxIterations THEN loop.i + 1 ELSE loop.i]
    /\ UNCHANGED LoopRest

NextLoop == LoopStart \/ LoopRequest \/ LoopExit \/ LoopBatchDone \/ LoopDelayElapsed

\* the run goes on whenever it can: the model request and the timer return
SpecLoop == InitLoop /\ [][NextLoop]_vars /\ WF_vars(NextLoop)

\* C28: for every batch-size value line 36 can yield and every number n of
\* unenriched calls the run ends, and when it has ended every unenriched
\* call was sent in exactly one batch and no batch held more than
\* batch-size calls.
C28_LoopTerminates ==
    <>(/\ loop.at = "done"
       /\ \A k \in 1..loop.n : loop.sent[k] = 1
       /\ loop.largest > 0 => (loop.size.kind = "number" /\ loop.largest <= loop.size.n))

(***************************************************************************)
(* Runs of enrichCalls over raw calls of which some have no createdAt      *)
(* (SpecUndated): the steps are those of Spec.                             *)
(***************************************************************************)
InitUndated ==
    /\ \E n \in 1..MaxCalls :
          \E dated \in [1..n -> BOOLEAN] :
             rawCalls = [k \in 1..n |->
                           BatchCall(CallIds[k], IF dated[k] THEN CreatedAtOf(k) ELSE Undefined,
                                     <<Some(0), Some(9499)>>, "customer-ended-call", None, None)]
    /\ batchSize \in BatchSizes
    /\ run = 0
    /\ unenrichedCalls = <<>>
    /\ i = 0
    /\ totalBatches = 0
    /\ processedCount = 0
    /\ events = <<>>
    /\ IdleReport
    /\ IdleRest
    /\ IdleClassify
    /\ IdleStore
    /\ IdleBatch

SpecUndated == InitUndated /\ [][Next]_vars

\* C29: every call of a saved batch has a record in the store, with or
\* without a createdAt; so the count a finished run reports is the number
\* of records the run added, and no later run finds a call of a saved
\* batch unenriched.
C29_SavedBatchIsStored ==
    /\ \A p \in EventsOf("saved") : events[p].ids \subseteq StoreIds
    /\ step = "done" =>
          processedCount = Cardinality(StoreIds \ events[StartOf(run)].have)
    /\ \A p \in EventsOf("start") : \A q \in EventsOf("saved") :
          q < p => events[q].ids \cap events[p].ids = {}

(***************************************************************************)
(* Routed calls against transfer attempts, and the transfer failure rate   *)
(* (SpecReport).                                                           *)
(***************************************************************************)
\* C30: in the metrics of any set of calls the routed calls are at most the
\* calls with a transfer attempt, and the transfer failure rate lies
\* between 0 and 100.
C30_FailureRateInRange ==
    metrics # None =>
        /\ metrics[1].routedCalls <= metrics[1].transferAttempted
        /\ metrics[1].transferFailureRate >= 0
        /\ metrics[1].transferFailureRate <= 100

====
